---------------------------- MODULE Spec2Model ----------------------------
(***************************************************************************)
(* Job registry of the WiiU download API server (cmd/wiiu-api main.go,     *)
(* here src/unnamed/part_003).                                             *)
(*                                                                         *)
(* The server keeps a map  jobs : job id -> *DownloadJob.  Every accepted  *)
(* POST /download builds a DownloadJob, stores it in the map and starts a  *)
(* goroutine running processDownload on it.  DELETE /download/{id} and     *)
(* GET /download/{id} look the job up under jobsMutex and then read and    *)
(* write the job's fields WITHOUT any lock, concurrently with the          *)
(* goroutine.  The model therefore keeps the position of every goroutine   *)
(* and of every handler, and one step is one source statement that touches *)
(* the shared job record.                                                  *)
(*                                                                         *)
(* The command runner (cmd/wiiu-cli, here src/unnamed/part_004 with the    *)
(* console sink of src/cmd/wiiu-cli/progress.go) is a second program: its  *)
(* main, its interrupt goroutine and the fetcher's goroutines calling the  *)
(* CLIProgressReporter are followed in specifications of their own.        *)
(*                                                                         *)
(* The catalog queries of both programs (the title listing, the lookup of  *)
(* one title) and the pure functions they use keep no state: SpecCatalog   *)
(* follows one request or call per behaviour, its answer kept in query.    *)
(*                                                                         *)
(* Strings are sequences of one-character strings, so that parsing and     *)
(* formatting are computed character by character.  A 64-bit title id is   *)
(* kept as the sequence of its hexadecimal digits without leading zeros    *)
(* (<<>> is 0): TLC's integers are 32 bits wide.                           *)
(***************************************************************************)
EXTENDS Integers, Sequences, FiniteSets, TLC

(***************************************************************************)
(* Bounds of the model.                                                    *)
(***************************************************************************)
MaxJobs == 2          \* DownloadJob objects ever allocated
MaxTime == 2          \* time.Now().Unix() ranges over 1..MaxTime
MaxSinkCalls == 1     \* progress-sink calls the fetcher makes per job

(***************************************************************************)
(* Characters and numbers.                                                 *)
(***************************************************************************)
\* value of each hexadecimal digit, upper or lower case
HexValue ==
  "0" :> 0 @@ "1" :> 1 @@ "2" :> 2 @@ "3" :> 3 @@ "4" :> 4 @@ "5" :> 5 @@
  "6" :> 6 @@ "7" :> 7 @@ "8" :> 8 @@ "9" :> 9 @@
  "a" :> 10 @@ "b" :> 11 @@ "c" :> 12 @@ "d" :> 13 @@ "e" :> 14 @@ "f" :> 15 @@
  "A" :> 10 @@ "B" :> 11 @@ "C" :> 12 @@ "D" :> 13 @@ "E" :> 14 @@ "F" :> 15

IsHexChar(c) == c \in DOMAIN HexValue

HexVal(c) == HexValue[c]

RECURSIVE StripZeros(_)
StripZeros(ds) ==
  IF ds = <<>> THEN <<>>
  ELSE IF Head(ds) = 0 THEN StripZeros(Tail(ds)) ELSE ds

BitSize == 64
HexDigitsMax == BitSize \div 4

SyntaxErr == "invalid syntax"
RangeErr == "value out of range"
NoErr == "nil"

\* strconv.ParseUint(s, 16, 64)
ParseUint(s) ==
  IF s = <<>> THEN [err |-> SyntaxErr, val |-> <<>>]
  ELSE IF \E i \in 1..Len(s) : ~IsHexChar(s[i])
       THEN [err |-> SyntaxErr, val |-> <<>>]
  ELSE LET v == StripZeros([i \in 1..Len(s) |-> HexVal(s[i])])
       IN  IF Len(v) > HexDigitsMax
           THEN [err |-> RangeErr, val |-> <<>>]
           ELSE [err |-> NoErr, val |-> v]

DecChars == <<"0","1","2","3","4","5","6","7","8","9">>

\* the %d verb of fmt.Sprintf on a non-negative integer
RECURSIVE FormatInt(_)
FormatInt(n) ==
  IF n < 10 THEN <<DecChars[n + 1]>>
  ELSE Append(FormatInt(n \div 10), DecChars[(n % 10) + 1])

(***************************************************************************)
(* The title catalog (package wiiudownloader, db.go).                      *)
(***************************************************************************)
Catalog ==
  { [TitleID |-> <<1>>, Name |-> "Super Mario 3D World"],
    [TitleID |-> <<1, 0>>, Name |-> "Mario Kart 8"] }

\* wiiudownloader.GetTitleEntryFromTid: the entry, or the zero entry
GetTitleEntryFromTid(tid) ==
  IF \E e \in Catalog : e.TitleID = tid
  THEN CHOOSE e \in Catalog : e.TitleID = tid
  ELSE [TitleID |-> <<>>, Name |-> ""]

(***************************************************************************)
(* Requests.                                                               *)
(***************************************************************************)
\* title_id strings a POST /download body may carry
\* (the last one has seventeen digits)
TitleIDStrings ==
  { <<>>, <<"1">>, <<"0","1">>, <<"g">>, <<"2">>, <<"0">>,
    <<"1","0","0","0","0","0","0","0","0","0","0","0","0","0","0","0","0">> }

\* bodies of POST /download: undecodable JSON, or the decoded fields
StartRequests ==
  { [json |-> FALSE, TitleID |-> <<>>, Decrypt |-> FALSE, DeleteEncrypted |-> FALSE] }
  \cup { [json |-> TRUE, TitleID |-> t, Decrypt |-> TRUE, DeleteEncrypted |-> FALSE]
         : t \in TitleIDStrings }

\* file keys and byte counts the fetcher reports
Files == { "a.bin", "b.bin" }
FileBytes == { 0, 1, 2 }

\* m[k] = v on a map
MapStore(m, k, v) == [x \in (DOMAIN m) \cup {k} |-> IF x = k THEN v ELSE m[x]]

\* the sum of the values of a map
RECURSIVE MapSum(_)
MapSum(m) ==
  IF DOMAIN m = {} THEN 0
  ELSE LET k == CHOOSE x \in DOMAIN m : TRUE
       IN  m[k] + MapSum([x \in (DOMAIN m) \ {k} |-> m[x]])

\* errors the external fetcher may return
FetchErrors == { "download failed" }

Terminal == { "completed", "failed", "cancelled" }

VARIABLES
  now,         \* the wall clock, in seconds
  heap,        \* the DownloadJob objects, in allocation order
  procs,       \* per object: the position of its handler/goroutine, and history
  jobs,        \* Server.jobs: job id -> index into heap
  dirs,        \* output directories created on disk
  createCode,  \* status code of the latest POST /download response, 0 if none
  cslot,       \* the DELETE /download/{id} handler
  gslot,       \* the GET /download/{id} handler
  snaps,       \* history: the values the job being read has had during the read
  reporter,    \* the command runner's CLIProgressReporter
  cmd,         \* the command runner: main, its interrupt goroutine, the fetcher
  query        \* the latest catalog query or pure-function call, and its answer

vars == <<now, heap, procs, jobs, dirs, createCode, cslot, gslot,
          snaps, reporter, cmd, query>>

\* fmt.Sprintf("%s_%d", req.TitleID, time.Now().Unix())
JobID(titleID, t) == titleID \o <<"_">> \o FormatInt(t)

\* filepath.Join(s.downloadsDir, jobID), with "d" the downloads directory
OutputDirOf(jobID) == <<"d">> \o <<"/">> \o jobID

\* the DownloadJob literal of handleStartDownload
NewJob(req, entry, jobID, t) ==
  [ ID              |-> jobID,
    TitleID         |-> req.TitleID,
    TitleName       |-> entry.Name,
    Status          |-> "pending",
    Progress        |-> 0,
    DownloadSize    |-> 0,
    Downloaded      |-> 0,
    Speed           |-> <<>>,
    ETA             |-> <<>>,
    Error           |-> "",
    OutputDir       |-> OutputDirOf(jobID),
    StartTime       |-> t,
    EndTime         |-> 0,
    Decrypt         |-> req.Decrypt,
    DeleteEncrypted |-> req.DeleteEncrypted,
    ctxDone         |-> FALSE ]

\* the goroutine of a job, before it is started
NewProc(req) ==
  [ pc         |-> "unlaunched",
    err        |-> NoErr,
    calls      |-> 0,         \* history: invocations of DownloadTitle
    sink       |-> 0,         \* history: progress-sink calls made
    reqTitle   |-> req.TitleID, \* history: the title_id of the request
    latest     |-> <<>>,      \* history: file key -> bytes of the latest update
    polled     |-> "none",    \* history: the latest answer of Cancelled()
    cancelSeen |-> FALSE,     \* history: a cancel passed its status check
    cancelOK   |-> FALSE ]    \* history: a cancel answered 200 before the fetch returned

IdleSlot == [pc |-> "idle", job |-> 0, code |-> 0, seen |-> ""]

\* the goroutines of the fetcher that report to the command runner's sink
MaxWorkers == 2
Workers == 1..MaxWorkers

\* a fetcher goroutine that is not inside a sink method
IdleWorker == [pc |-> "idle", file |-> "", bytes |-> 0, todo |-> {}]

\* no progress line has been printed
NoLine == <<>>

\* NewCLIProgressReporter(): the zero CLIProgressReporter with an empty map
NewCLIProgressReporter ==
  [ gameTitle      |-> "",
    totalSize      |-> 0,
    downloadedSize |-> 0,
    startTime      |-> 0,
    cancelled      |-> FALSE,
    mu             |-> 0,        \* the goroutine holding the mutex, 0 if free
    fileProgress   |-> <<>>,
    totalFiles     |-> 0,
    completedFiles |-> 0,
    eta            |-> NoLine,   \* the ETA of the progress line printed last
    decryption     |-> NoLine ]  \* the decryption progress line printed last

\* the process has not exited
Running == -1

\* the command runner before flag.Parse()
NewCommand ==
  [ pc      |-> "flags",
    list    |-> FALSE,      \* -list or -search is given
    title   |-> <<>>,       \* -title
    output  |-> FALSE,      \* -output is given
    exit    |-> Running,    \* the exit status of the process
    err     |-> NoErr,      \* what DownloadTitle returned
    sig     |-> "none",     \* the interrupt goroutine
    calls   |-> 0,          \* history: invocations of DownloadTitle
    flagAtReturn |-> FALSE, \* history: the cancellation flag when the fetch returned
    latest  |-> <<>>,       \* history: file key -> bytes of the latest update
    others  |-> FALSE,      \* history: the file map was written by another method
    workers |-> [w \in Workers |-> IdleWorker] ]

\* the fields of a job that a status read reports and that change
Snapshot(job) ==
  [ status |-> job.Status, progress |-> job.Progress,
    downloaded |-> job.Downloaded, download_size |-> job.DownloadSize,
    error |-> job.Error, end_time |-> job.EndTime ]

\* history: job object h takes the value job while a status read of h runs
Observed(h, job) ==
  IF gslot.pc # "idle" /\ gslot.job = h
  THEN snaps \cup {Snapshot(job)}
  ELSE snaps

\* no catalog query has been answered yet
NoQuery == [op |-> "none"]

Init ==
  /\ now = 1
  /\ heap = <<>>
  /\ procs = <<>>
  /\ jobs = <<>>
  /\ dirs = {}
  /\ createCode = 0
  /\ cslot = IdleSlot
  /\ gslot = [pc |-> "idle", job |-> 0, code |-> 0, body |-> <<>>]
  /\ snaps = {}
  /\ reporter = NewCLIProgressReporter
  /\ cmd = NewCommand
  /\ query = NoQuery

\* time passes
Tick ==
  /\ now < MaxTime
  /\ now' = now + 1
  /\ UNCHANGED <<query, reporter, cmd, snaps, heap, procs, jobs, dirs, createCode, cslot, gslot>>

(***************************************************************************)
(* POST /download: handleStartDownload.                                    *)
(***************************************************************************)
\* the status code handleStartDownload answers with
StartCode(req, mkdirOK) ==
  IF ~req.json THEN 400
  ELSE IF req.TitleID = <<>> THEN 400
  ELSE IF ParseUint(req.TitleID).err # NoErr THEN 400
  ELSE IF GetTitleEntryFromTid(ParseUint(req.TitleID).val).TitleID = <<>> THEN 404
  ELSE IF ~mkdirOK THEN 500
  ELSE 202

\* a store that is lost
StoreJobDropped(m, jobID, h) == m

\* s.jobs[jobID] = job
StoreJob(m, jobID, h) ==
  [id \in (DOMAIN m) \cup {jobID} |-> IF id = jobID THEN h ELSE m[id]]

\* an early return: http.Error(w, ..., code)
Reject(code) ==
  /\ createCode' = code
  /\ UNCHANGED <<query, reporter, cmd, snaps, now, heap, procs, jobs, dirs, cslot, gslot>>

\* os.MkdirAll succeeded: the job is built and stored under jobID
Accept(req, entry, jobID) ==
  /\ Len(heap) < MaxJobs
  /\ dirs' = dirs \cup {OutputDirOf(jobID)}
  /\ heap' = Append(heap, NewJob(req, entry, jobID, now))
  /\ procs' = Append(procs, NewProc(req))
  /\ jobs' = StoreJob(jobs, jobID, Len(heap) + 1)
  /\ UNCHANGED <<query, reporter, cmd, snaps, now, createCode, cslot, gslot>>

\* a variant that looks the title up only after the job is stored
StartDownloadLateLookup(req, mkdirOK) ==
  LET entry == GetTitleEntryFromTid(ParseUint(req.TitleID).val)
      jobID == JobID(req.TitleID, now)
  IN  IF ~req.json THEN Reject(400)
      ELSE IF req.TitleID = <<>> THEN Reject(400)
      ELSE IF ParseUint(req.TitleID).err # NoErr THEN Reject(400)
      ELSE IF ~mkdirOK THEN Reject(500)
      ELSE IF entry.TitleID = <<>>
           THEN /\ Len(heap) < MaxJobs
                /\ dirs' = dirs \cup {OutputDirOf(jobID)}
                /\ heap' = Append(heap, NewJob(req, entry, jobID, now))
                /\ procs' = Append(procs, NewProc(req))
                /\ jobs' = StoreJob(jobs, jobID, Len(heap) + 1)
                /\ createCode' = 404
                /\ UNCHANGED <<query, reporter, cmd, snaps, now, cslot, gslot>>
           ELSE Accept(req, entry, jobID)

\* a variant that answers 400 for a title that is not in the catalog
StartDownloadNotFound400(req, mkdirOK) ==
  LET entry == GetTitleEntryFromTid(ParseUint(req.TitleID).val)
      jobID == JobID(req.TitleID, now)
  IN  IF ~req.json THEN Reject(400)
      ELSE IF req.TitleID = <<>> THEN Reject(400)
      ELSE IF ParseUint(req.TitleID).err # NoErr THEN Reject(400)
      ELSE IF entry.TitleID = <<>> THEN Reject(400)
      ELSE IF ~mkdirOK THEN Reject(500)
      ELSE Accept(req, entry, jobID)

\* handleStartDownload up to s.jobsMutex.Unlock(), in the order of the source:
\* decode, title_id present, ParseUint, catalog lookup, MkdirAll, store
StartDownload(req, mkdirOK) ==
  LET entry == GetTitleEntryFromTid(ParseUint(req.TitleID).val)
      jobID == JobID(req.TitleID, now)
  IN  IF ~req.json THEN Reject(400)
      ELSE IF req.TitleID = <<>> THEN Reject(400)
      ELSE IF ParseUint(req.TitleID).err # NoErr THEN Reject(400)
      ELSE IF entry.TitleID = <<>> THEN Reject(404)
      ELSE IF ~mkdirOK THEN Reject(500)
      ELSE Accept(req, entry, jobID)

\* go s.processDownload(job), then the 202 response
LaunchDownload(h) ==
  /\ procs[h].pc = "unlaunched"
  /\ procs' = [procs EXCEPT ![h].pc = "start"]
  /\ createCode' = 202
  /\ UNCHANGED <<query, reporter, cmd, snaps, now, heap, jobs, dirs, cslot, gslot>>


(***************************************************************************)
(* Byte counts and durations as the sinks print them.                      *)
(***************************************************************************)
\* the conversion of a float64 to an integer: truncation toward zero
Truncate(n, d) == IF n >= 0 THEN n \div d ELSE -((-n) \div d)

\* the %02d verb of fmt.Sprintf on a non-negative integer
TwoDigits(n) == IF n < 10 THEN <<"0">> \o FormatInt(n) ELSE FormatInt(n)

Unknown == <<"u","n","k","n","o","w","n">>

\* formatDuration of a whole number of seconds
formatDuration(d) ==
  IF d < 0 THEN Unknown
  ELSE LET h == d \div 3600
           m == (d % 3600) \div 60
           sec == d % 60
       IN  IF h > 0
           THEN TwoDigits(h) \o <<":">> \o TwoDigits(m) \o <<":">> \o TwoDigits(sec)
           ELSE TwoDigits(m) \o <<":">> \o TwoDigits(sec)

Unit == 1024

\* the loop of formatBytes: how often bytes / unit can be divided again
RECURSIVE ByteExp(_)
ByteExp(n) == IF n >= Unit THEN 1 + ByteExp(n \div Unit) ELSE 0

\* the %.1f verb of fmt.Sprintf on bytes / div, from the tenths
OneDecimal(bytes, div) ==
  LET tenths == (bytes * 20 + div) \div (2 * div)
  IN  FormatInt(tenths \div 10) \o <<".">> \o FormatInt(tenths % 10)

\* formatBytes
formatBytes(bytes) ==
  IF bytes < Unit THEN FormatInt(bytes) \o <<" ", "B">>
  ELSE LET exp == ByteExp(bytes \div Unit)
       IN  OneDecimal(bytes, Unit ^ (exp + 1))
             \o <<" ", <<"K", "M", "G", "T", "P", "E">>[exp + 1], "B">>

(***************************************************************************)
(* APIProgressReporter: the progress sink the fetcher calls back into.     *)
(* Each method runs under the reporter's own mutex and writes the job.     *)
(***************************************************************************)
\* a title setter that also overwrites the title id
SetGameTitleAndID(job, title) == [job EXCEPT !.TitleName = title, !.TitleID = <<title>>]

SetGameTitle(job, title) == [job EXCEPT !.TitleName = title]

\* a variant that also takes the fraction for the byte counter
UpdateDecryptionProgressAsBytes(job, progress) ==
  [job EXCEPT !.Progress = progress, !.Downloaded = progress]

UpdateDecryptionProgress(job, progress) == [job EXCEPT !.Progress = progress]

Cancelled(job) == job.Status = "cancelled"

SetCancelled(job) == [job EXCEPT !.Status = "cancelled"]

SetDownloadSize(job, size) == [job EXCEPT !.DownloadSize = size]

ResetTotals(job) == [job EXCEPT !.Downloaded = 0, !.Progress = 0]

\* float64(downloaded) / float64(size) * 100; the byte counts of the model
\* make the quotient a whole number
Percent(downloaded, size) == (downloaded * 100) \div size

\* UpdateDownloadProgress(downloaded, filename) at time t.  a.startTime is
\* taken by the handler run that takes job.StartTime.
UpdateDownloadProgress(job, downloaded, filename, t) ==
  LET size == job.DownloadSize
      elapsed == t - job.StartTime
      stored == [job EXCEPT !.Downloaded = downloaded]
      rated == [stored EXCEPT !.Progress = Percent(downloaded, size)]
      timed == [rated EXCEPT
                  !.Speed = formatBytes(Truncate(downloaded, elapsed)) \o <<"/", "s">>]
  IN  IF size > 0
      THEN IF elapsed > 0
           THEN IF downloaded > 0
                THEN [timed EXCEPT
                        !.ETA = formatDuration(
                                  Truncate((size - downloaded) * elapsed, downloaded))]
                ELSE timed
           ELSE rated
      ELSE stored

\* arguments the fetcher passes to the sink
SinkTitles == { "SUPER MARIO 3D WORLD" }
SinkProgress == { 50 }
SinkSizes == { 2 }

\* the fetcher, inside DownloadTitle, may call the sink
Fetching(h) == procs[h].pc = "fetching" /\ procs[h].sink < MaxSinkCalls

SinkCall(h, job) ==
  /\ heap' = [heap EXCEPT ![h] = job]
  /\ procs' = [procs EXCEPT ![h].sink = @ + 1]
  /\ snaps' = Observed(h, job)
  /\ UNCHANGED <<query, reporter, cmd, now, jobs, dirs, createCode, cslot, gslot>>

SinkSetGameTitle(h) ==
  /\ Fetching(h)
  /\ \E t \in SinkTitles : SinkCall(h, SetGameTitle(heap[h], t))

SinkUpdateDecryptionProgress(h) ==
  /\ Fetching(h)
  /\ \E p \in SinkProgress : SinkCall(h, UpdateDecryptionProgress(heap[h], p))

SinkSetDownloadSize(h) ==
  /\ Fetching(h)
  /\ \E z \in SinkSizes : SinkCall(h, SetDownloadSize(heap[h], z))

SinkResetTotals(h) ==
  /\ Fetching(h)
  /\ SinkCall(h, ResetTotals(heap[h]))

\* the fetcher asks Cancelled()
SinkCancelled(h) ==
  /\ procs[h].pc = "fetching"
  /\ procs' = [procs EXCEPT
                 ![h].polled = IF Cancelled(heap[h]) THEN "true" ELSE "false"]
  /\ UNCHANGED <<query, reporter, cmd, snaps, now, heap, jobs, dirs, createCode, cslot, gslot>>

\* the fetcher reports the bytes of one file
SinkUpdateDownloadProgress(h) ==
  /\ procs[h].pc = "fetching"
  /\ \E bytes \in FileBytes, file \in Files :
       LET job == UpdateDownloadProgress(heap[h], bytes, file, now)
       IN  /\ heap' = [heap EXCEPT ![h] = job]
           /\ procs' = [procs EXCEPT ![h].latest = MapStore(@, file, bytes)]
           /\ snaps' = Observed(h, job)
  /\ UNCHANGED <<query, reporter, cmd, now, jobs, dirs, createCode, cslot, gslot>>

(***************************************************************************)
(* The background unit: processDownload, one step per statement.           *)
(***************************************************************************)
ProcStep(h, job, pc) ==
  /\ heap' = [heap EXCEPT ![h] = job]
  /\ procs' = [procs EXCEPT ![h].pc = pc]
  /\ snaps' = Observed(h, job)
  /\ UNCHANGED <<query, reporter, cmd, now, jobs, dirs, createCode, cslot, gslot>>

\* a start that leaves the status alone
MarkDownloadingSkipped(job) == job

\* job.Status = "downloading", then DownloadTitle is entered
MarkDownloading(job) == [job EXCEPT !.Status = "downloading"]

ProcessStart(h) ==
  /\ procs[h].pc = "start"
  /\ heap' = [heap EXCEPT ![h] = MarkDownloading(heap[h])]
  /\ procs' = [procs EXCEPT ![h].pc = "fetching", ![h].calls = @ + 1]
  /\ snaps' = Observed(h, MarkDownloading(heap[h]))
  /\ UNCHANGED <<query, reporter, cmd, now, jobs, dirs, createCode, cslot, gslot>>

\* DownloadTitle returns nil or an error
FetchReturn(h) ==
  /\ procs[h].pc = "fetching"
  /\ \E e \in {NoErr} \cup FetchErrors :
       procs' = [procs EXCEPT ![h].pc = "returned", ![h].err = e]
  /\ UNCHANGED <<query, reporter, cmd, snaps, now, heap, jobs, dirs, createCode, cslot, gslot>>

\* DownloadTitle panics.  processDownload has no deferred recover, so the
\* panic unwinds the goroutine and the Go runtime ends the process: the
\* unit stops at the call, and every other goroutine and handler is killed
\* where it stands.
FetchPanic(h) ==
  /\ procs[h].pc = "fetching"
  /\ procs' = [k \in DOMAIN procs |->
                [procs[k] EXCEPT !.pc = IF k = h THEN "panicked" ELSE "killed"]]
  /\ cslot' = [cslot EXCEPT !.pc = "killed"]
  /\ gslot' = [gslot EXCEPT !.pc = "killed"]
  /\ UNCHANGED <<query, reporter, cmd, snaps, now, heap, jobs, dirs, createCode>>

\* now := time.Now(); job.EndTime = &now
MarkEnd(job, t) == [job EXCEPT !.EndTime = t]

ProcessEndTime(h) ==
  /\ procs[h].pc = "returned"
  /\ ProcStep(h, MarkEnd(heap[h], now), "result")

\* a variant that calls DownloadTitle again after an error
ResultBranchRetry(job, err) ==
  IF err # NoErr
  THEN IF job.Status = "cancelled" THEN "keepCancelled" ELSE "start"
  ELSE "setCompleted"

\* if err != nil { if job.Status == "cancelled" ... } else { job.Status = "completed" ...
\* the branch taken: the next position of the goroutine
ResultBranch(job, err) ==
  IF err # NoErr
  THEN IF job.Status = "cancelled" THEN "keepCancelled" ELSE "setFailed"
  ELSE "setCompleted"

ProcessResult(h) ==
  /\ procs[h].pc = "result"
  /\ ProcStep(h, heap[h], ResultBranch(heap[h], procs[h].err))

\* job.Status = "cancelled" (the branch that found it cancelled)
ProcessKeepCancelled(h) ==
  /\ procs[h].pc = "keepCancelled"
  /\ ProcStep(h, [heap[h] EXCEPT !.Status = "cancelled"], "done")

\* job.Status = "failed"
ProcessSetFailed(h) ==
  /\ procs[h].pc = "setFailed"
  /\ ProcStep(h, [heap[h] EXCEPT !.Status = "failed"], "setError")

\* job.Error = err.Error()
ProcessSetError(h) ==
  /\ procs[h].pc = "setError"
  /\ ProcStep(h, [heap[h] EXCEPT !.Error = procs[h].err], "done")

\* job.Status = "completed"
MarkCompleted(job) == [job EXCEPT !.Status = "completed"]

ProcessSetCompleted(h) ==
  /\ procs[h].pc = "setCompleted"
  /\ ProcStep(h, MarkCompleted(heap[h]), "setProgress")

\* a completion that leaves the progress alone
MarkFullProgressSkipped(job) == job

\* job.Progress = 100.0
MarkFullProgress(job) == [job EXCEPT !.Progress = 100]

ProcessSetProgress(h) ==
  /\ procs[h].pc = "setProgress"
  /\ ProcStep(h, MarkFullProgress(heap[h]), "done")

(***************************************************************************)
(* DELETE /download/{id}: handleCancelDownload.                            *)
(***************************************************************************)
\* an id no job was ever stored under
UnknownID == <<"n","o","n","e">>

RequestIDs == (DOMAIN jobs) \cup {UnknownID}

\* the fetch of job h has not returned yet
BeforeReturn(h) == procs[h].pc \in {"unlaunched", "start", "fetching"}

\* a lookup that answers an id without a job with 200
CancelLookupLenient(id) ==
  /\ cslot.pc = "idle"
  /\ cslot' = IF id \in DOMAIN jobs
              THEN [pc |-> "check", job |-> jobs[id], code |-> 0, seen |-> ""]
              ELSE [pc |-> "idle", job |-> 0, code |-> 200, seen |-> ""]
  /\ UNCHANGED <<query, reporter, cmd, snaps, now, heap, procs, jobs, dirs, createCode, gslot>>

\* job, exists := s.jobs[jobID]; 404 if it does not exist
CancelLookup(id) ==
  /\ cslot.pc = "idle"
  /\ cslot' = IF id \in DOMAIN jobs
              THEN [pc |-> "check", job |-> jobs[id], code |-> 0, seen |-> ""]
              ELSE [pc |-> "idle", job |-> 0, code |-> 404, seen |-> ""]
  /\ UNCHANGED <<query, reporter, cmd, snaps, now, heap, procs, jobs, dirs, createCode, gslot>>

\* a check that refuses every terminal status
CancelRejectsTerminal(status) == status \in {"completed", "failed", "cancelled"}

\* a check that refuses completed jobs only
CancelRejectsCompleted(status) == status = "completed"

\* job.Status == "completed" || job.Status == "failed"
CancelRejects(status) == status \in {"completed", "failed"}

\* the status check: 400, or job.cancel() and on to the writes
CancelCheck ==
  /\ cslot.pc = "check"
  /\ LET h == cslot.job
     IN  IF CancelRejects(heap[h].Status)
         THEN /\ cslot' = [pc |-> "idle", job |-> h, code |-> 400,
                           seen |-> heap[h].Status]
              /\ UNCHANGED <<heap, procs>>
         ELSE /\ cslot' = [cslot EXCEPT !.pc = "status", !.seen = heap[h].Status]
              /\ heap' = [heap EXCEPT ![h].ctxDone = TRUE]
              /\ procs' = [procs EXCEPT ![h].cancelSeen = TRUE]
  /\ UNCHANGED <<query, reporter, cmd, snaps, now, jobs, dirs, createCode, gslot>>

\* job.Status = "cancelled"
CancelStatus ==
  /\ cslot.pc = "status"
  /\ heap' = [heap EXCEPT ![cslot.job] = SetCancelled(heap[cslot.job])]
  /\ cslot' = [cslot EXCEPT !.pc = "endtime"]
  /\ snaps' = Observed(cslot.job, SetCancelled(heap[cslot.job]))
  /\ UNCHANGED <<query, reporter, cmd, now, procs, jobs, dirs, createCode, gslot>>

\* now := time.Now(); job.EndTime = &now; the 200 response
CancelEnd ==
  /\ cslot.pc = "endtime"
  /\ heap' = [heap EXCEPT ![cslot.job] = MarkEnd(heap[cslot.job], now)]
  /\ cslot' = [cslot EXCEPT !.pc = "idle", !.code = 200]
  /\ procs' = [procs EXCEPT ![cslot.job].cancelOK = @ \/ BeforeReturn(cslot.job)]
  /\ snaps' = Observed(cslot.job, MarkEnd(heap[cslot.job], now))
  /\ UNCHANGED <<query, reporter, cmd, now, jobs, dirs, createCode, gslot>>

(***************************************************************************)
(* GET /download/{id}: handleGetDownloadStatus.                            *)
(***************************************************************************)
GetLookup(id) ==
  /\ gslot.pc = "idle"
  /\ gslot' = IF id \in DOMAIN jobs
              THEN [pc |-> "fields", job |-> jobs[id], code |-> 0, body |-> <<>>]
              ELSE [pc |-> "idle", job |-> 0, code |-> 404, body |-> <<>>]
  /\ snaps' = IF id \in DOMAIN jobs THEN {Snapshot(heap[jobs[id]])} ELSE {}
  /\ UNCHANGED <<query, reporter, cmd, now, heap, procs, jobs, dirs, createCode, cslot>>

\* the response map literal
ResponseFields(job) ==
  [ id |-> job.ID, title_id |-> job.TitleID, title_name |-> job.TitleName,
    status |-> job.Status, progress |-> job.Progress,
    download_size |-> job.DownloadSize, downloaded |-> job.Downloaded,
    speed |-> job.Speed, eta |-> job.ETA,
    output_dir |-> job.OutputDir, start_time |-> job.StartTime,
    decrypt |-> job.Decrypt, delete_encrypted |-> job.DeleteEncrypted,
    error |-> "", end_time |-> 0 ]

GetFields ==
  /\ gslot.pc = "fields"
  /\ gslot' = [gslot EXCEPT !.pc = "error", !.body = ResponseFields(heap[gslot.job])]
  /\ UNCHANGED <<query, reporter, cmd, snaps, now, heap, procs, jobs, dirs, createCode, cslot>>

\* if job.Error != "" { response["error"] = job.Error }
GetError ==
  /\ gslot.pc = "error"
  /\ gslot' = [gslot EXCEPT !.pc = "end", !.body.error = heap[gslot.job].Error]
  /\ UNCHANGED <<query, reporter, cmd, snaps, now, heap, procs, jobs, dirs, createCode, cslot>>

\* if job.EndTime != nil { response["end_time"] = ... }; the 200 response
GetEnd ==
  /\ gslot.pc = "end"
  /\ gslot' = [gslot EXCEPT !.pc = "idle", !.code = 200,
                            !.body.end_time = heap[gslot.job].EndTime]
  /\ UNCHANGED <<query, reporter, cmd, snaps, now, heap, procs, jobs, dirs, createCode, cslot>>

(***************************************************************************)
(* CLIProgressReporter: the progress sink of the command runner.  Every    *)
(* method but UpdateDecryptionProgress runs under the reporter's mutex.    *)
(* UpdateDownloadProgress is followed statement by statement, so that the  *)
(* mutex is what keeps concurrent callers apart.                           *)
(***************************************************************************)
\* a lock that is never held
TryLockFree(r) == TRUE

\* c.mu.Lock() can be passed
TryLock(r) == r.mu = 0

\* printProgress at time t: nothing while the total is 0; otherwise a line
\* whose ETA is the float64 totalSeconds - elapsed cut to whole seconds
printProgress(r, t) ==
  IF r.totalSize = 0 THEN r
  ELSE LET elapsed == t - r.startTime
           eta == IF r.downloadedSize > 0 /\ elapsed > 0
                  THEN Truncate(elapsed * (r.totalSize - r.downloadedSize),
                                r.downloadedSize)
                  ELSE 0
       IN  [r EXCEPT !.eta = formatDuration(eta)]

\* the fetcher is inside DownloadTitle
CmdFetching == cmd.pc = "fetching"

WorkerStep(w, wk, r) ==
  /\ cmd' = [cmd EXCEPT !.workers[w] = wk]
  /\ reporter' = r
  /\ UNCHANGED <<query, now, heap, procs, jobs, dirs, createCode, cslot, gslot, snaps>>

\* UpdateDownloadProgress(downloaded, filename): c.mu.Lock()
UpdateLock(w, bytes, file) ==
  /\ CmdFetching
  /\ cmd.workers[w].pc = "idle"
  /\ TryLock(reporter)
  /\ WorkerStep(w, [pc |-> "store", file |-> file, bytes |-> bytes, todo |-> {}],
                [reporter EXCEPT !.mu = w])

\* c.fileProgress[filename] = downloaded
UpdateStore(w) ==
  LET wk == cmd.workers[w]
  IN  /\ wk.pc = "store"
      /\ cmd' = [cmd EXCEPT !.workers[w].pc = "zero",
                            !.latest = MapStore(@, wk.file, wk.bytes)]
      /\ reporter' = [reporter EXCEPT
                        !.fileProgress = MapStore(@, wk.file, wk.bytes)]
      /\ UNCHANGED <<query, now, heap, procs, jobs, dirs, createCode, cslot, gslot, snaps>>

\* c.downloadedSize = 0, and the range loop is entered
UpdateZero(w) ==
  /\ cmd.workers[w].pc = "zero"
  /\ WorkerStep(w, [cmd.workers[w] EXCEPT !.pc = "sum",
                                         !.todo = DOMAIN reporter.fileProgress],
                [reporter EXCEPT !.downloadedSize = 0])

\* the keys the range loop of worker w has still to visit
ToVisit(w) == cmd.workers[w].todo \cap DOMAIN reporter.fileProgress

\* c.downloadedSize += size, for one more key of the map
UpdateAdd(w) ==
  /\ cmd.workers[w].pc = "sum"
  /\ \E k \in ToVisit(w) :
       WorkerStep(w, [cmd.workers[w] EXCEPT !.todo = @ \ {k}],
                  [reporter EXCEPT !.downloadedSize = @ + reporter.fileProgress[k]])

\* the loop is over: c.printProgress(), and the deferred c.mu.Unlock()
UpdatePrint(w) ==
  /\ cmd.workers[w].pc = "sum"
  /\ ToVisit(w) = {}
  /\ WorkerStep(w, IdleWorker, [printProgress(reporter, now) EXCEPT !.mu = 0])

\* a method the fetcher calls between its file downloads, under the mutex
FetcherCall(r, others) ==
  /\ CmdFetching
  /\ TryLock(reporter)
  /\ reporter' = r
  /\ cmd' = [cmd EXCEPT !.others = @ \/ others]
  /\ UNCHANGED <<query, now, heap, procs, jobs, dirs, createCode, cslot, gslot, snaps>>

\* SetDownloadSize(size)
CliSetDownloadSize(size) ==
  FetcherCall([reporter EXCEPT !.totalSize = size], FALSE)

\* SetStartTime(startTime)
CliSetStartTime ==
  FetcherCall([reporter EXCEPT !.startTime = now,
                               !.totalFiles = Cardinality(DOMAIN reporter.fileProgress)],
              FALSE)

\* a variant of ResetTotals() that keeps the map of the files
CliResetTotalsKeepsFiles ==
  FetcherCall([reporter EXCEPT !.downloadedSize = 0, !.totalSize = 0,
                               !.completedFiles = 0, !.totalFiles = 0],
              TRUE)

\* ResetTotals()
CliResetTotals ==
  FetcherCall([reporter EXCEPT !.downloadedSize = 0, !.totalSize = 0,
                               !.completedFiles = 0, !.totalFiles = 0,
                               !.fileProgress = <<>>],
              TRUE)

\* SetTotalDownloadedForFile(filename, downloaded)
CliSetTotalDownloadedForFile(file, bytes) ==
  FetcherCall([reporter EXCEPT !.fileProgress = MapStore(@, file, bytes)], TRUE)

\* SetGameTitle(title)
CliSetGameTitle ==
  \E title \in SinkTitles : FetcherCall([reporter EXCEPT !.gameTitle = title], FALSE)

\* MarkFileAsDone(filename): the fetcher marks each file once
CliMarkFileAsDone ==
  /\ reporter.completedFiles < Cardinality(Files)
  /\ FetcherCall([reporter EXCEPT !.completedFiles = @ + 1], FALSE)

\* UpdateDecryptionProgress(progress) of the console sink: no mutex is taken
CliUpdateDecryptionProgress ==
  /\ CmdFetching
  /\ \E p \in SinkProgress :
       \* fmt.Printf("Decryption progress: %.1f%%\n", progress*100)
       reporter' = [reporter EXCEPT
                      !.decryption = FormatInt(p * 100) \o <<".", "0", "%">>]
  /\ UNCHANGED <<query, cmd, now, heap, procs, jobs, dirs, createCode, cslot, gslot, snaps>>

\* a call of UpdateDownloadProgress(downloaded, filename) from c.mu.Lock()
\* to the deferred c.mu.Unlock(), at time t
UpdateDownloadProgressCall(r, downloaded, filename, t) ==
  LET stored == MapStore(r.fileProgress, filename, downloaded)
  IN  printProgress([r EXCEPT !.fileProgress = stored,
                              !.downloadedSize = MapSum(stored)], t)

\* the fetcher calls UpdateDownloadProgress and the call returns (the
\* histories of the goroutines inside the method are not kept here)
CliUpdateDownloadProgress ==
  /\ CmdFetching
  /\ TryLock(reporter)
  /\ \E bytes \in FileBytes, file \in Files :
       reporter' = UpdateDownloadProgressCall(reporter, bytes, file, now)
  /\ UNCHANGED <<query, cmd, now, heap, procs, jobs, dirs, createCode, cslot, gslot, snaps>>

(***************************************************************************)
(* The command runner: main of cmd/wiiu-cli.                               *)
(***************************************************************************)
\* values of the -title flag: not given, a catalog title, an unknown title
CmdTitles == { <<>>, <<"1">>, <<"2">> }

\* the exit status main ends with once DownloadTitle has returned err and
\* progress.Cancelled() has answered cancelled
ExitIgnoringCancel(err, cancelled) == IF err # NoErr THEN 1 ELSE 0

ExitStatus(err, cancelled) ==
  IF err # NoErr
  THEN IF cancelled THEN 130 ELSE 1
  ELSE IF cancelled THEN 130 ELSE 0

CmdStep(c) ==
  /\ cmd' = c
  /\ UNCHANGED <<query, now, heap, procs, jobs, dirs, createCode, cslot, gslot, snaps,
                 reporter>>

\* main up to the start of the download: list/search mode returns after
\* handleListSearch; a missing -title or -output is os.Exit(1); a failing
\* filepath.Abs or os.MkdirAll is log.Fatal; otherwise the reporter is made
\* and the signal handler is installed
CmdStart(list, title, output, dirOK) ==
  /\ cmd.pc = "flags"
  /\ LET c == [cmd EXCEPT !.list = list, !.title = title, !.output = output]
     IN  IF list THEN CmdStep([c EXCEPT !.pc = "exited", !.exit = 0])
         ELSE IF title = <<>> THEN CmdStep([c EXCEPT !.pc = "exited", !.exit = 1])
         ELSE IF ~output THEN CmdStep([c EXCEPT !.pc = "exited", !.exit = 1])
         ELSE IF ~dirOK THEN CmdStep([c EXCEPT !.pc = "exited", !.exit = 1])
         ELSE CmdStep([c EXCEPT !.pc = "ready"])

\* wiiudownloader.DownloadTitle(*titleID, ...) is called
CmdFetch ==
  /\ cmd.pc = "ready"
  /\ CmdStep([cmd EXCEPT !.pc = "fetching", !.calls = @ + 1])

\* SIGINT or SIGTERM arrives and the goroutine receives it from sigChan
Interrupt ==
  /\ cmd.pc \in {"ready", "fetching", "returned"}
  /\ cmd.sig = "none"
  /\ CmdStep([cmd EXCEPT !.sig = "received"])

\* the goroutine: progress.SetCancelled()
InterruptSetCancelled ==
  /\ cmd.pc \in {"ready", "fetching", "returned"}
  /\ cmd.sig = "received"
  /\ TryLock(reporter)
  /\ cmd' = [cmd EXCEPT !.sig = "done"]
  /\ reporter' = [reporter EXCEPT !.cancelled = TRUE]
  /\ UNCHANGED <<query, now, heap, procs, jobs, dirs, createCode, cslot, gslot, snaps>>

\* DownloadTitle returns nil or an error, its goroutines having ended
CmdFetchReturn ==
  /\ cmd.pc = "fetching"
  /\ \A w \in Workers : cmd.workers[w].pc = "idle"
  /\ \E e \in {NoErr} \cup FetchErrors :
       CmdStep([cmd EXCEPT !.pc = "returned", !.err = e,
                           !.flagAtReturn = reporter.cancelled])

\* if err != nil { if progress.Cancelled() ... }, if progress.Cancelled() ...
CmdExit ==
  /\ cmd.pc = "returned"
  /\ TryLock(reporter)
  /\ CmdStep([cmd EXCEPT !.pc = "exited",
                         !.exit = ExitStatus(cmd.err, reporter.cancelled)])

(***************************************************************************)
(* The title listing: GET /titles (handleListTitles) and the command       *)
(* runner's -list / -search (handleListSearch).                            *)
(*                                                                         *)
(* A name and a search term are Go strings, here sequences of bytes        *)
(* (0..255): containsIgnoreCase compares them byte by byte with byte       *)
(* arithmetic.  Category, region and platform tokens are only compared     *)
(* for equality and stay strings.                                          *)
(***************************************************************************)
MaxTermLen == 2       \* longest byte string handed to containsIgnoreCase

ByteRange == 256
CaseGap == 32

\* b + d on a Go byte: the sum wraps
ByteAdd(b, d) == (b + d) % ByteRange

\* b - d on a Go byte: the difference wraps
ByteSub(b, d) == (b + ByteRange - d) % ByteRange

equalIgnoreCase(a, b) ==
  IF Len(a) # Len(b) THEN FALSE
  ELSE \A i \in 1..Len(a) :
         ~( /\ a[i] # b[i]
            /\ a[i] # ByteAdd(b[i], CaseGap)
            /\ a[i] # ByteSub(b[i], CaseGap) )

containsIgnoreCaseHelper(s, substr) ==
  \E i \in 0..(Len(s) - Len(substr)) :
    equalIgnoreCase(SubSeq(s, i + 1, i + Len(substr)), substr)

containsIgnoreCase(s, substr) ==
  /\ Len(s) >= Len(substr)
  /\ (s = substr \/ containsIgnoreCaseHelper(s, substr))

\* a & b on unsigned integers
RECURSIVE BitAnd(_, _)
BitAnd(a, b) ==
  IF a = 0 \/ b = 0 THEN 0
  ELSE (a % 2) * (b % 2) + 2 * BitAnd(a \div 2, b \div 2)

\* titleID >> 32 on the hexadecimal digits of a 64-bit value
ShiftRight32(tid) ==
  IF Len(tid) <= HexDigitsMax \div 2 THEN <<>>
  ELSE SubSeq(tid, 1, Len(tid) - HexDigitsMax \div 2)

MCP_REGION_JAPAN == 1
MCP_REGION_USA == 2
MCP_REGION_EUROPE == 4

TITLE_CATEGORY_GAME == "TITLE_CATEGORY_GAME"
TITLE_CATEGORY_UPDATE == "TITLE_CATEGORY_UPDATE"
TITLE_CATEGORY_DLC == "TITLE_CATEGORY_DLC"
TITLE_CATEGORY_DEMO == "TITLE_CATEGORY_DEMO"
TITLE_CATEGORY_ALL == "TITLE_CATEGORY_ALL"

\* the loaded title database, in declaration order
TitleDB ==
  <<
    \* 0x00050000101C9500 "Super Mario 3D World"
    [ TitleID |-> <<5, 0, 0, 0, 0, 1, 0, 1, 12, 9, 5, 0, 0>>,
      Name |-> <<83, 117, 112, 101, 114, 32, 77, 97, 114, 105, 111, 32, 51, 68, 32, 87, 111, 114, 108, 100>>,
      Region |-> 2 ],
    \* 0x000500001010EC00 "Mario Kart 8"
    [ TitleID |-> <<5, 0, 0, 0, 0, 1, 0, 1, 0, 14, 12, 0, 0>>,
      Name |-> <<77, 97, 114, 105, 111, 32, 75, 97, 114, 116, 32, 56>>,
      Region |-> 6 ],
    \* 0x0005000E101C9500 "Super Mario 3D World"
    [ TitleID |-> <<5, 0, 0, 0, 14, 1, 0, 1, 12, 9, 5, 0, 0>>,
      Name |-> <<83, 117, 112, 101, 114, 32, 77, 97, 114, 105, 111, 32, 51, 68, 32, 87, 111, 114, 108, 100>>,
      Region |-> 2 ],
    \* 0x0004000000030800 "MARIO KART 7"
    [ TitleID |-> <<4, 0, 0, 0, 0, 0, 0, 0, 3, 0, 8, 0, 0>>,
      Name |-> <<77, 65, 82, 73, 79, 32, 75, 65, 82, 84, 32, 55>>,
      Region |-> 1 ],
    \* 0x0100000000010000 "Zelda 0P"
    [ TitleID |-> <<1, 0, 0, 0, 0, 0, 0, 0, 0, 0, 1, 0, 0, 0, 0>>,
      Name |-> <<90, 101, 108, 100, 97, 32, 48, 80>>,
      Region |-> 7 ],
    \* 0x0005000C101C9500 "Mario DLC"
    [ TitleID |-> <<5, 0, 0, 0, 12, 1, 0, 1, 12, 9, 5, 0, 0>>,
      Name |-> <<77, 97, 114, 105, 111, 32, 68, 76, 67>>,
      Region |-> 4 ],
    \* 0x0007000800000001 "vWii System"
    [ TitleID |-> <<7, 0, 0, 0, 8, 0, 0, 0, 0, 0, 0, 0, 1>>,
      Name |-> <<118, 87, 105, 105, 32, 83, 121, 115, 116, 101, 109>>,
      Region |-> 0 ],
    \* 0x0005000210101E00 "Kart Demo"
    [ TitleID |-> <<5, 0, 0, 0, 2, 1, 0, 1, 0, 1, 14, 0, 0>>,
      Name |-> <<75, 97, 114, 116, 32, 68, 101, 109, 111>>,
      Region |-> 5 ],
    \* 0x0005001010040000 "Wii U Menu"
    [ TitleID |-> <<5, 0, 0, 1, 0, 1, 0, 0, 4, 0, 0, 0, 0>>,
      Name |-> <<87, 105, 105, 32, 85, 32, 77, 101, 110, 117>>,
      Region |-> 3 ]
  >>

\* a database holding the one entry 0x00050000101C9500
MarioDB ==
  <<
    \* 0x00050000101C9500 "Super Mario 3D World"
    [ TitleID |-> <<5, 0, 0, 0, 0, 1, 0, 1, 12, 9, 5, 0, 0>>,
      Name |-> <<83, 117, 112, 101, 114, 32, 77, 97, 114, 105, 111, 32, 51, 68, 32, 87, 111, 114, 108, 100>>,
      Region |-> 2 ]
  >>

Databases == { TitleDB, MarioDB }

\* the category a title id belongs to: the low byte of its upper 32 bits
CategoryOf(tid) ==
  LET high == ShiftRight32(tid)
      n == Len(high)
      low == IF n = 0 THEN 0
             ELSE IF n = 1 THEN high[1]
             ELSE 16 * high[n - 1] + high[n]
  IN  IF low = 0 THEN TITLE_CATEGORY_GAME
      ELSE IF low = 14 THEN TITLE_CATEGORY_UPDATE
      ELSE IF low = 12 THEN TITLE_CATEGORY_DLC
      ELSE IF low = 2 THEN TITLE_CATEGORY_DEMO
      ELSE "other"

\* wiiudownloader.GetTitleEntries(category) on the loaded database db
GetTitleEntries(db, category) ==
  SelectSeq(db, LAMBDA e : \/ category = TITLE_CATEGORY_ALL
                           \/ CategoryOf(e.TitleID) = category)

\* the switch on the category token
CategoryFlags ==
  "game" :> TITLE_CATEGORY_GAME @@ "update" :> TITLE_CATEGORY_UPDATE @@
  "dlc" :> TITLE_CATEGORY_DLC @@ "demo" :> TITLE_CATEGORY_DEMO @@
  "all" :> TITLE_CATEGORY_ALL

\* the switch on the platform token: the upper 32 bits a platform covers
PlatformPrefixes ==
  "wiiu" :> { <<5,0,0,0,0>>, <<5,0,0,0,2>>, <<5,0,0,1,0>>, <<5,0,0,1,11>>,
              <<5,0,0,3,0>>, <<5,0,0,0,12>>, <<5,0,0,0,14>> } @@
  "vwii" :> { <<7>>, <<7,0,0,0,2>>, <<7,0,0,0,8>> } @@
  "switch" :> { <<1,0,0,0,0,0,0>>, <<1,0,0,0,0,0,2>>, <<1,0,0,0,0,8,0>>,
                <<1,0,0,0,0,8,1>>, <<1,0,0,0,0,8,2>>, <<1,0,0,0,0,0,12>>,
                <<1,0,0,0,0,0,14>> } @@
  "3ds" :> { <<4,0,0,0,0>>, <<4,0,0,0,2>>, <<4,0,0,1,0>>, <<4,0,0,1,11>>,
             <<4,0,0,3,0>>, <<4,0,0,0,12>>, <<4,0,0,0,14>> }

\* the switch on the region token
RegionMasks ==
  "japan" :> MCP_REGION_JAPAN @@ "usa" :> MCP_REGION_USA @@
  "europe" :> MCP_REGION_EUROPE

\* the platform loop: an entry is kept when its upper 32 bits are a prefix
PlatformFilter(entries, platformPrefixes) ==
  SelectSeq(entries, LAMBDA entry : ShiftRight32(entry.TitleID) \in platformPrefixes)

\* a region test that asks for the mask itself
RegionEquals(entry, regionMask) == entry.Region = regionMask

\* entry.Region&regionMask != 0
RegionKeeps(entry, regionMask) == BitAnd(entry.Region, regionMask) # 0

\* a region loop that stops at the first entry it keeps
RegionFilterFirst(entries, regionMask) ==
  LET kept == SelectSeq(entries, LAMBDA entry : RegionKeeps(entry, regionMask))
  IN  IF kept = <<>> THEN <<>> ELSE <<Head(kept)>>

\* the region loop
RegionFilter(entries, regionMask) ==
  SelectSeq(entries, LAMBDA entry : RegionKeeps(entry, regionMask))

\* the search loop
SearchFilter(entries, search) ==
  SelectSeq(entries, LAMBDA entry : containsIgnoreCase(entry.Name, search))

\* a mask that clears nothing
MaskNothing(high) == high

\* titleHigh & 0xFFFFFFF0 on a value of at most 32 bits
MaskLowNibble(high) ==
  IF high = <<>> THEN <<>>
  ELSE StripZeros(SubSeq(high, 1, Len(high) - 1) \o <<0>>)

getPlatformFromTitleID(titleID) ==
  LET titleHigh == ShiftRight32(titleID)
      main == MaskLowNibble(titleHigh)
  IN  IF main = <<5,0,0,0,0>> THEN "Wii U"
      ELSE IF main = <<4,0,0,0,0>> THEN "3DS"
      ELSE IF main = <<>>
           THEN (IF titleHigh = <<7>> THEN "vWii" ELSE "Unknown")
      ELSE IF main = <<7,0,0,0,0>> THEN "vWii"
      ELSE IF main = <<1,0,0,0,0,0,0>> THEN "Switch"
      ELSE IF main = <<1,0,0,0,0>> THEN "Wii"
      ELSE "Unknown"

\* fmt.Sprintf("%016X", titleID)
FormatHex16(tid) ==
  LET pad == HexDigitsMax - Len(tid)
      HexChars == <<"0","1","2","3","4","5","6","7","8","9","A","B","C","D","E","F">>
  IN  [i \in 1..HexDigitsMax |-> IF i <= pad THEN "0" ELSE HexChars[tid[i - pad] + 1]]

\* one element of the titles array (region and type are formatted by the
\* wiiudownloader package and are left out)
TitleJSON(entry) ==
  [ id |-> FormatHex16(entry.TitleID),
    name |-> entry.Name,
    platform |-> getPlatformFromTitleID(entry.TitleID) ]

\* an error text sent with status 200
HttpErrorOK(text, code) == [code |-> 200, error |-> text]

\* http.Error(w, text, code)
HttpError(text, code) == [code |-> code, error |-> text]

\* the JSON listing, answered with status 200
Listing(entries) ==
  LET titles == [i \in 1..Len(entries) |-> TitleJSON(entries[i])]
  IN  [code |-> 200, count |-> Len(titles), titles |-> titles]

\* handleListTitles on the query parameters, with db the loaded database
handleListTitles(db, categoryParam, search, region, platformParam) ==
  LET category == IF categoryParam = "" THEN "game" ELSE categoryParam
      platform == IF platformParam = "" THEN "all" ELSE platformParam
  IN  IF category \notin DOMAIN CategoryFlags
      THEN HttpError("Invalid category", 400)
      ELSE IF platform # "all" /\ platform \notin DOMAIN PlatformPrefixes
      THEN HttpError("Invalid platform", 400)
      ELSE IF region # "" /\ region # "all" /\ region \notin DOMAIN RegionMasks
      THEN HttpError("Invalid region", 400)
      ELSE
        LET all == GetTitleEntries(db, CategoryFlags[category])
            byPlatform == IF platform # "all"
                          THEN PlatformFilter(all, PlatformPrefixes[platform])
                          ELSE all
            byRegion == IF region # "" /\ region # "all"
                        THEN RegionFilter(byPlatform, RegionMasks[region])
                        ELSE byPlatform
            bySearch == IF search # <<>>
                        THEN SearchFilter(byRegion, search)
                        ELSE byRegion
        IN  Listing(bySearch)

\* query parameters a GET /titles request may carry
CategoryTokens == { "", "game", "update", "dlc", "demo", "all", "games" }
RegionTokens == { "", "all", "japan", "usa", "europe", "asia" }
PlatformTokens == { "", "all", "wiiu", "vwii", "switch", "3ds", "wii" }
FormatTokens == { "", "cia", "invalid" }
\* "", "mario", "KART", "0p", "x"
SearchTerms ==
  { <<>>, <<109, 97, 114, 105, 111>>, <<75, 65, 82, 84>>, <<48, 112>>, <<120>> }

\* GET /titles is answered (the handlers of the catalog keep no state: one
\* request is followed per behaviour)
GetTitles ==
  /\ query = NoQuery
  /\ \E db \in Databases, category \in CategoryTokens, search \in SearchTerms,
        region \in RegionTokens, platform \in PlatformTokens,
        format \in FormatTokens :
    /\ query' = [ op |-> "GET /titles", db |-> db, category |-> category,
                  search |-> search, region |-> region, platform |-> platform,
                  format |-> format,
                  response |-> handleListTitles(db, category, search, region, platform) ]
    /\ UNCHANGED <<now, heap, procs, jobs, dirs, createCode, cslot, gslot,
                   snaps, reporter, cmd>>

\* one block of the lines handleListSearch prints for an entry (region and
\* type are formatted by the wiiudownloader package and are left out)
TitleLines(entry) ==
  [ id |-> FormatHex16(entry.TitleID), name |-> entry.Name ]

\* handleListSearch on the flags, with db the loaded database: the exit
\* status of the process and what it printed
handleListSearch(db, search, categoryStr, regionStr) ==
  IF categoryStr \notin DOMAIN CategoryFlags
  THEN [exit |-> 1, error |-> "Unknown category"]
  ELSE IF regionStr # "all" /\ regionStr \notin DOMAIN RegionMasks
  THEN [exit |-> 1, error |-> "Unknown region"]
  ELSE
    LET all == GetTitleEntries(db, CategoryFlags[categoryStr])
        byRegion == IF regionStr # "all"
                    THEN RegionFilter(all, RegionMasks[regionStr])
                    ELSE all
        bySearch == IF search # <<>>
                    THEN SearchFilter(byRegion, search)
                    ELSE byRegion
    IN  [ exit |-> 0,
          titles |-> [i \in 1..Len(bySearch) |-> TitleLines(bySearch[i])] ]

\* the command runner is started with -list or -search
CmdListSearch ==
  /\ query = NoQuery
  /\ \E db \in Databases, category \in CategoryTokens, search \in SearchTerms,
        region \in RegionTokens :
    /\ query' = [ op |-> "wiiu-cli -list", db |-> db, category |-> category,
                  search |-> search, region |-> region,
                  response |-> handleListSearch(db, search, category, region) ]
    /\ UNCHANGED <<now, heap, procs, jobs, dirs, createCode, cslot, gslot,
                   snaps, reporter, cmd>>

\* the byte strings of at most MaxTermLen bytes of names and search terms,
\* over the bytes a A b 0 P !
ByteStrings ==
  LET Alphabet == { 97, 65, 98, 48, 80, 33 }
  IN  UNION { [1..n -> Alphabet] : n \in 0..MaxTermLen }

\* containsIgnoreCase(s, substr) is called
CallContainsIgnoreCase ==
  /\ query = NoQuery
  /\ \E s \in ByteStrings, substr \in ByteStrings :
       query' = [ op |-> "containsIgnoreCase", s |-> s, substr |-> substr,
                  result |-> containsIgnoreCase(s, substr) ]
  /\ UNCHANGED <<now, heap, procs, jobs, dirs, createCode, cslot, gslot,
                 snaps, reporter, cmd>>

\* the {id} segments a GET /titles/{id} request may carry
PathIDs == (TitleIDStrings \ {<<>>}) \cup { <<"1","0">>, <<"1","g">>, <<"a">> }

\* a variant that answers every unusable id with 404
handleGetTitleNotFound(id) ==
  LET parsed == ParseUint(id)
      entry == GetTitleEntryFromTid(parsed.val)
  IN  IF parsed.err # NoErr \/ entry.TitleID = <<>>
      THEN HttpError("Title not found", 404)
      ELSE [code |-> 200, title |-> TitleJSON(entry)]

\* handleGetTitle on the {id} segment of the path
handleGetTitle(id) ==
  LET parsed == ParseUint(id)
      entry == GetTitleEntryFromTid(parsed.val)
  IN  IF parsed.err # NoErr THEN HttpError("Invalid title ID format", 400)
      ELSE IF entry.TitleID = <<>> THEN HttpError("Title not found", 404)
      ELSE [code |-> 200, title |-> TitleJSON(entry)]

\* GET /titles/{id} is answered
GetTitle ==
  /\ query = NoQuery
  /\ \E id \in PathIDs :
       query' = [ op |-> "GET /titles/{id}", id |-> id,
                  response |-> handleGetTitle(id) ]
  /\ UNCHANGED <<now, heap, procs, jobs, dirs, createCode, cslot, gslot,
                 snaps, reporter, cmd>>

\* upper 32 bits of a title id, as eight hexadecimal digits: every low
\* digit after the first seven digits of the upper words followed (the
\* prefixes of the switch, their neighbours and the extremes)
HighWords ==
  LET HighPrefixes ==
        { <<0,0,0,5,0,0,0>>, <<0,0,0,4,0,0,0>>, <<0,1,0,0,0,0,0>>,
          <<0,0,0,7,0,0,0>>, <<0,0,0,1,0,0,0>>, <<0,0,0,0,0,0,0>>,
          <<0,0,0,5,0,0,1>>, <<0,1,0,0,0,0,8>>, <<0,0,0,2,0,0,0>>,
          <<0,0,0,0,0,0,1>>, <<1,0,0,0,0,0,0>>, <<15,15,15,15,15,15,15>> }
  IN  { p \o <<x>> : p \in HighPrefixes, x \in 0..15 }

\* lower 32 bits of a title id, as eight hexadecimal digits
LowWords ==
  { <<0,0,0,0,0,0,0,0>>, <<0,0,0,0,0,0,0,1>>, <<1,0,1,12,9,5,0,0>>,
    <<15,15,15,15,15,15,15,15>> }

\* getPlatformFromTitleID(titleID) is called
CallGetPlatformFromTitleID ==
  /\ query = NoQuery
  /\ \E high \in HighWords, low \in LowWords :
       query' = [ op |-> "getPlatformFromTitleID", high |-> high, low |-> low,
                  result |-> getPlatformFromTitleID(StripZeros(high \o low)) ]
  /\ UNCHANGED <<now, heap, procs, jobs, dirs, createCode, cslot, gslot,
                 snaps, reporter, cmd>>

(***************************************************************************)
(* Specifications.                                                         *)
(*                                                                         *)
(* Spec follows ONE job through its whole life: the request, the           *)
(* background unit statement by statement, the fetcher's sink calls and    *)
(* the cancel handler, in every interleaving.                              *)
(*                                                                         *)
(* SpecRegistry follows the registry itself: up to MaxJobs accepted        *)
(* requests, rejected requests and status reads, while the background      *)
(* units wait to be scheduled.                                             *)
(***************************************************************************)
Objects == 1..Len(heap)

Next ==
  \/ Tick
  \/ \E req \in StartRequests, mkdirOK \in BOOLEAN :
       heap = <<>> /\ StartDownload(req, mkdirOK)
  \/ \E h \in Objects : LaunchDownload(h)
  \/ \E h \in Objects : ProcessStart(h)
  \/ \E h \in Objects : SinkSetGameTitle(h)
  \/ \E h \in Objects : SinkUpdateDecryptionProgress(h)
  \/ \E h \in Objects : SinkSetDownloadSize(h)
  \/ \E h \in Objects : SinkResetTotals(h)
  \/ \E h \in Objects : FetchReturn(h)
  \/ \E h \in Objects : ProcessEndTime(h)
  \/ \E h \in Objects : ProcessResult(h)
  \/ \E h \in Objects : ProcessKeepCancelled(h)
  \/ \E h \in Objects : ProcessSetFailed(h)
  \/ \E h \in Objects : ProcessSetError(h)
  \/ \E h \in Objects : ProcessSetCompleted(h)
  \/ \E h \in Objects : ProcessSetProgress(h)
  \/ \E id \in RequestIDs : CancelLookup(id)
  \/ CancelCheck
  \/ CancelStatus
  \/ CancelEnd

Spec == Init /\ [][Next]_vars

NextRegistry ==
  \/ Tick
  \/ \E req \in StartRequests, mkdirOK \in BOOLEAN : StartDownload(req, mkdirOK)
  \/ \E h \in Objects : LaunchDownload(h)
  \/ \E id \in RequestIDs : GetLookup(id)
  \/ GetFields
  \/ GetError
  \/ GetEnd

SpecRegistry == Init /\ [][NextRegistry]_vars

\* the requests of StartRequests that handleStartDownload accepts
AcceptedRequests == { req \in StartRequests : StartCode(req, TRUE) = 202 }

\* SpecStatus follows one accepted job while status reads and cancels of it
\* (and of an unknown id) run concurrently with its background unit.
NextStatus ==
  \/ \E req \in AcceptedRequests : heap = <<>> /\ StartDownload(req, TRUE)
  \/ \E h \in Objects : LaunchDownload(h)
  \/ \E h \in Objects : ProcessStart(h)
  \/ \E h \in Objects : SinkSetDownloadSize(h)
  \/ \E h \in Objects : FetchReturn(h)
  \/ \E h \in Objects : FetchPanic(h)
  \/ \E h \in Objects : ProcessEndTime(h)
  \/ \E h \in Objects : ProcessResult(h)
  \/ \E h \in Objects : ProcessKeepCancelled(h)
  \/ \E h \in Objects : ProcessSetFailed(h)
  \/ \E h \in Objects : ProcessSetError(h)
  \/ \E h \in Objects : ProcessSetCompleted(h)
  \/ \E h \in Objects : ProcessSetProgress(h)
  \/ \E id \in RequestIDs : CancelLookup(id)
  \/ CancelCheck
  \/ CancelStatus
  \/ CancelEnd
  \/ \E id \in RequestIDs : GetLookup(id)
  \/ GetFields
  \/ GetError
  \/ GetEnd

SpecStatus == Init /\ [][NextStatus]_vars

\* SpecPolling follows the polling sink of one job: the fetcher sets the
\* expected size, reports the bytes of its files and asks for cancellation
\* while time passes and the job is cancelled.
NextPolling ==
  \/ Tick
  \/ \E req \in AcceptedRequests : heap = <<>> /\ StartDownload(req, TRUE)
  \/ \E h \in Objects : LaunchDownload(h)
  \/ \E h \in Objects : ProcessStart(h)
  \/ \E h \in Objects : SinkSetDownloadSize(h)
  \/ \E h \in Objects : SinkUpdateDownloadProgress(h)
  \/ \E h \in Objects : SinkCancelled(h)
  \/ \E id \in DOMAIN jobs : CancelLookup(id)
  \/ CancelCheck
  \/ CancelStatus
  \/ CancelEnd
  \/ \E h \in Objects : FetchReturn(h)
  \/ \E h \in Objects : ProcessEndTime(h)
  \/ \E h \in Objects : ProcessResult(h)
  \/ \E h \in Objects : ProcessKeepCancelled(h)
  \/ \E h \in Objects : ProcessSetFailed(h)
  \/ \E h \in Objects : ProcessSetError(h)
  \/ \E h \in Objects : ProcessSetCompleted(h)
  \/ \E h \in Objects : ProcessSetProgress(h)

SpecPolling == Init /\ [][NextPolling]_vars

\* SpecConsole follows one run of the command runner: main, the interrupt
\* goroutine, and a fetcher that resets the sink's totals.
NextConsole ==
  \/ Tick
  \/ \E list \in BOOLEAN, title \in CmdTitles, output \in BOOLEAN, dirOK \in BOOLEAN :
       CmdStart(list, title, output, dirOK)
  \/ CmdFetch
  \/ Interrupt
  \/ InterruptSetCancelled
  \/ CmdFetchReturn
  \/ CmdExit
  \/ \E size \in SinkSizes : CliSetDownloadSize(size)
  \/ CliResetTotals

SpecConsole == Init /\ [][NextConsole]_vars

\* SpecSink follows the console sink during one download: the fetcher's
\* goroutines inside UpdateDownloadProgress, and its other calls.
NextSink ==
  \/ Tick
  \/ CmdStart(FALSE, <<"1">>, TRUE, TRUE)
  \/ CmdFetch
  \/ \E w \in Workers, bytes \in FileBytes, file \in Files : UpdateLock(w, bytes, file)
  \/ \E w \in Workers : UpdateStore(w)
  \/ \E w \in Workers : UpdateZero(w)
  \/ \E w \in Workers : UpdateAdd(w)
  \/ \E w \in Workers : UpdatePrint(w)
  \/ \E size \in SinkSizes : CliSetDownloadSize(size)
  \/ CliSetStartTime
  \/ CliResetTotals
  \/ \E file \in Files, bytes \in FileBytes : CliSetTotalDownloadedForFile(file, bytes)

SpecSink == Init /\ [][NextSink]_vars

\* SpecCatalog follows the catalog queries and the pure functions of the
\* two front ends: each step answers one request or makes one call.
NextCatalog ==
  \/ GetTitles
  \/ CmdListSearch
  \/ CallContainsIgnoreCase
  \/ GetTitle
  \/ CallGetPlatformFromTitleID

SpecCatalog == Init /\ [][NextCatalog]_vars

\* SpecCounters follows the counters of the two progress sinks, method call
\* by method call: either the server with one job whose fetcher calls the
\* polling sink while the job is cancelled, or the command runner whose
\* fetcher calls the console sink while the process is interrupted.
NextCounters ==
  \/ \E req \in AcceptedRequests :
       heap = <<>> /\ cmd.pc = "flags" /\ StartDownload(req, TRUE)
  \/ \E h \in Objects : LaunchDownload(h)
  \/ \E h \in Objects : ProcessStart(h)
  \/ \E h \in Objects : SinkSetGameTitle(h)
  \/ \E h \in Objects : SinkUpdateDecryptionProgress(h)
  \/ \E h \in Objects : SinkSetDownloadSize(h)
  \/ \E h \in Objects : SinkResetTotals(h)
  \/ \E h \in Objects : SinkUpdateDownloadProgress(h)
  \/ \E id \in DOMAIN jobs : CancelLookup(id)
  \/ CancelCheck
  \/ CancelStatus
  \/ CancelEnd
  \/ heap = <<>> /\ CmdStart(FALSE, <<"1">>, TRUE, TRUE)
  \/ CmdFetch
  \/ Interrupt
  \/ InterruptSetCancelled
  \/ CliSetGameTitle
  \/ \E size \in SinkSizes : CliSetDownloadSize(size)
  \/ CliSetStartTime
  \/ CliResetTotals
  \/ \E file \in Files, bytes \in FileBytes : CliSetTotalDownloadedForFile(file, bytes)
  \/ CliUpdateDownloadProgress
  \/ CliUpdateDecryptionProgress
  \/ CliMarkFileAsDone

SpecCounters == Init /\ [][NextCounters]_vars

\* the statements of processDownload after DownloadTitle has returned
UnitStep(h) ==
  \/ ProcessEndTime(h)
  \/ ProcessResult(h)
  \/ ProcessKeepCancelled(h)
  \/ ProcessSetFailed(h)
  \/ ProcessSetError(h)
  \/ ProcessSetCompleted(h)
  \/ ProcessSetProgress(h)

\* SpecFair follows the jobs of the server with their background units and
\* the cancel handler under the scheduling of the Go runtime: a goroutine
\* that can run a statement is run in the end.  The statements after the
\* return of DownloadTitle take no lock and wait for nothing, so each unit
\* gets weak fairness for them; the fetcher and the clients get none.
NextFair ==
  \/ \E req \in AcceptedRequests : StartDownload(req, TRUE)
  \/ \E h \in Objects : LaunchDownload(h)
  \/ \E h \in Objects : ProcessStart(h)
  \/ \E h \in Objects : FetchReturn(h)
  \/ \E h \in Objects : FetchPanic(h)
  \/ \E h \in Objects : UnitStep(h)
  \/ \E id \in RequestIDs : CancelLookup(id)
  \/ CancelCheck
  \/ CancelStatus
  \/ CancelEnd

SpecFair ==
  /\ Init
  /\ [][NextFair]_vars
  /\ \A h \in 1..MaxJobs : WF_vars(h \in Objects /\ UnitStep(h))

(***************************************************************************)
(* Claims.                                                                 *)
(***************************************************************************)
Launched(h) == procs[h].pc # "unlaunched"

\* C1: once a job's status is completed, failed or cancelled, no later step
\* (of the cancel handler, the background unit or the sink) changes it.
C1_TerminalIsFinal ==
  [][\A h \in Objects :
       heap[h].Status \in Terminal => heap'[h].Status = heap[h].Status]_vars

\* C2: when the background unit has finished after a fetch error, the status
\* is cancelled if a cancel was answered 200 before the fetch returned, and
\* failed if no cancel was ever accepted.
C2_CancelWinsOverError ==
  \A h \in Objects :
    (procs[h].pc = "done" /\ procs[h].err # NoErr) =>
      /\ procs[h].cancelOK => heap[h].Status = "cancelled"
      /\ ~procs[h].cancelSeen => heap[h].Status = "failed"

\* the cancel handler runs its status check on a job whose status is in S
CheckOn(S) ==
  /\ cslot.pc = "check"
  /\ heap[cslot.job].Status \in S
  /\ CancelCheck

C4_FinishedJobNotCancellable ==
  [][CheckOn({"completed", "failed"}) =>
       (cslot'.pc = "idle" /\ cslot'.code = 400 /\ heap' = heap)]_vars

\* a cancel of a failed job has been answered 400
C4_Witness ==
  /\ cslot.pc = "idle"
  /\ cslot.code = 400
  /\ cslot.seen = "failed"
  /\ heap[cslot.job].Status = "failed"

\* C5: when a cancel that found the job running returns, the job's status
\* is cancelled and its EndTime is set.
C5_CancelledOnReturn ==
  [][(CancelEnd /\ cslot.seen = "downloading") =>
       (heap'[cslot.job].Status = "cancelled" /\ heap'[cslot.job].EndTime # 0)]_vars

RejectedInputs ==
  { x \in { <<req, mkdirOK, StartCode(req, mkdirOK)>> :
              req \in StartRequests, mkdirOK \in BOOLEAN } : x[3] # 202 }

ReturnedIDs == { heap[h].ID : h \in {k \in Objects : Launched(k)} }

\* the title_id of the request that a returned id was made for
RequestedTitles(id) ==
  { procs[h].reqTitle : h \in {k \in Objects : heap[k].ID = id} }

\* C8: a job is in the registry before its background unit is launched;
\* createJob returns while the fetch has not even started; a status read
\* of a returned id finds a job, and the job it finds, and the response
\* built from it, carry the requested title id.
C8_CreatedJobIsVisible ==
  /\ [](\A h \in Objects : heap[h].ID \in DOMAIN jobs)
  /\ [][\A h \in Objects :
          LaunchDownload(h) => (procs'[h].pc = "start" /\ procs'[h].calls = 0)]_vars
  /\ [][\A id \in ReturnedIDs :
          GetLookup(id) =>
            /\ gslot'.pc = "fields"
            /\ RequestedTitles(id) = {heap[gslot'.job].TitleID}]_vars
  /\ [](gslot.code = 200 => RequestedTitles(gslot.body.id) = {gslot.body.title_id})

\* a status read of a returned id has answered 200 with the requested title
C8_Witness ==
  /\ gslot.pc = "idle"
  /\ gslot.code = 200
  /\ Launched(gslot.job)
  /\ gslot.body.title_id = procs[gslot.job].reqTitle
  /\ gslot.body.id \in ReturnedIDs

\* C9 as stated: once createJob has returned, the job's status is no
\* longer pending.
C9_NeverPendingAfterCreate ==
  \A h \in Objects : Launched(h) => heap[h].Status # "pending"

\* C9 as amended: the status leaves pending with the first statement of the
\* background unit, before the fetch is started: a job whose unit has got
\* past that statement is never pending, and a job that is pending has a
\* unit that has not started the fetch.
C9_PendingUntilUnitStarts ==
  \A h \in Objects :
    /\ procs[h].pc \notin {"unlaunched", "start"} => heap[h].Status # "pending"
    /\ heap[h].Status = "pending" => procs[h].calls = 0

\* the fetch is running and the job is downloading
C9_Witness ==
  \E h \in Objects :
    /\ procs[h].pc = "fetching"
    /\ procs[h].calls = 1
    /\ heap[h].Status = "downloading"

\* C10: every job object is the one the registry holds under its id, that
\* is, no later createJob has taken the key of an earlier job.
C10_NoJobOverwritten ==
  \A h \in Objects :
    heap[h].ID \in DOMAIN jobs /\ jobs[heap[h].ID] = h

\* the fields of a status response that change during a job's life
BodySnapshot(body) ==
  [ status |-> body.status, progress |-> body.progress,
    downloaded |-> body.downloaded, download_size |-> body.download_size,
    error |-> body.error, end_time |-> body.end_time ]

\* C11: the status, progress, downloaded, download_size, error and end_time
\* of a finished status read are the values the job had, all together, at
\* one instant between the lookup and the response.
C11_ReadIsSnapshot ==
  (gslot.pc = "idle" /\ gslot.code = 200) => BodySnapshot(gslot.body) \in snaps

\* C12: a background unit whose fetch panicked has left its job failed, and
\* the handlers of the service are still running.
C12_PanicEndsFailed ==
  \A h \in Objects :
    procs[h].pc = "panicked" =>
      /\ heap[h].Status = "failed"
      /\ cslot.pc # "killed"
      /\ gslot.pc # "killed"

\* no call of UpdateDownloadProgress is in progress
NoUpdateRunning == \A w \in Workers : cmd.workers[w].pc = "idle"

\* C13: in the console sink, whenever no UpdateDownloadProgress call is in
\* progress and no other method has written the file map, downloadedSize
\* is the sum over the file keys of the value of the latest update of each
\* key, and the map holds exactly those values.
C13_ConsoleAggregateIsSum ==
  (NoUpdateRunning /\ ~cmd.others) =>
    /\ reporter.downloadedSize = MapSum(cmd.latest)
    /\ reporter.fileProgress = cmd.latest

\* both file keys have been reported with different values, no call is in
\* progress, and the aggregate is the sum of the two latest values
C13_Witness ==
  /\ NoUpdateRunning
  /\ ~cmd.others
  /\ DOMAIN cmd.latest = Files
  /\ cmd.latest["a.bin"] = 1
  /\ cmd.latest["b.bin"] = 2
  /\ reporter.downloadedSize = 3

\* C14: in the polling sink, once the fetcher has reported bytes, the job's
\* Downloaded is the sum over the file keys of the value of the latest
\* update of each key.
C14_PollingAggregateIsSum ==
  \A h \in Objects :
    (procs[h].pc = "fetching" /\ procs[h].latest # <<>>) =>
      heap[h].Downloaded = MapSum(procs[h].latest)

\* C15: once Cancelled() has answered true for a job, or a cancel of the
\* job has been answered 200, every later Cancelled() on the job answers
\* true.
C15_CancelledIsMonotonic ==
  [][\A h \in Objects :
       (SinkCancelled(h) /\ (procs[h].polled = "true" \/ procs[h].cancelOK))
         => procs'[h].polled = "true"]_vars

\* C16: in the polling sink, an update made while the expected size T is
\* greater than 0 leaves the job's Progress at 100 * aggregate / T, the
\* aggregate being the sum over the file keys of the latest value of each.
C16_ProgressFollowsAggregate ==
  [][\A h \in Objects :
       (SinkUpdateDownloadProgress(h) /\ heap[h].DownloadSize > 0) =>
         heap'[h].Progress =
           Percent(MapSum(procs'[h].latest), heap[h].DownloadSize)]_vars

\* C17: an update of the console sink made while the total is 0 or the
\* aggregate is 0 prints the unknown marker as its ETA (or, the total being
\* 0, prints no progress line at all), never a duration.
C17_UnknownEta ==
  [][\A w \in Workers :
       (UpdatePrint(w) /\ (reporter.totalSize = 0 \/ reporter.downloadedSize = 0)) =>
         \/ reporter'.eta = Unknown
         \/ reporter.totalSize = 0 /\ reporter'.eta = reporter.eta]_vars

\* C18: a status read and a cancel of an id that is not a key of the
\* registry are both answered 404 at the lookup, the handler is finished,
\* and neither the registry nor any job object nor any background unit has
\* changed.
C18_UnknownIdNotFound ==
  [][\A id \in RequestIDs \ DOMAIN jobs :
       /\ GetLookup(id) =>
            /\ gslot'.pc = "idle" /\ gslot'.code = 404
            /\ jobs' = jobs /\ heap' = heap /\ procs' = procs
       /\ CancelLookup(id) =>
            /\ cslot'.pc = "idle" /\ cslot'.code = 404
            /\ jobs' = jobs /\ heap' = heap /\ procs' = procs]_vars

\* both handlers have answered 404 while the registry holds a running job
C18_Witness ==
  /\ gslot.pc = "idle" /\ gslot.code = 404
  /\ cslot.pc = "idle" /\ cslot.code = 404
  /\ \E h \in Objects : heap[h].ID \in DOMAIN jobs /\ heap[h].Status = "downloading"

\* C19: when the command runner has exited in fetch mode: with the title
\* or the output directory missing it exited 1 without calling the fetcher;
\* with the cancellation flag set when the fetch returned it exited 130,
\* whatever the fetch returned; with an error returned and the flag not set
\* it exited non-zero; and it exited 0 only if the fetch was called,
\* returned nil and the flag is not set.
C19_ExitStatus ==
  (cmd.pc = "exited" /\ ~cmd.list) =>
    /\ (cmd.title = <<>> \/ ~cmd.output) => (cmd.exit = 1 /\ cmd.calls = 0)
    /\ (cmd.calls > 0 /\ cmd.flagAtReturn) => cmd.exit = 130
    /\ (cmd.calls > 0 /\ cmd.err # NoErr /\ ~reporter.cancelled) => cmd.exit # 0
    /\ cmd.exit = 0 => (cmd.calls > 0 /\ cmd.err = NoErr /\ ~reporter.cancelled)

\* the fetch returned nil after an interrupt had set the flag, and the
\* runner exited 130
C19_Witness ==
  /\ cmd.pc = "exited"
  /\ cmd.calls = 1
  /\ cmd.err = NoErr
  /\ cmd.flagAtReturn
  /\ cmd.exit = 130

\* the title id string names an entry of the catalog
InCatalog(title) ==
  /\ ParseUint(title).err = NoErr
  /\ GetTitleEntryFromTid(ParseUint(title).val).TitleID # <<>>

\* C20: in both front-ends the fetcher is called only with a title id that
\* resolves to a catalog entry.
C20_FetchOnlyCatalogTitles ==
  /\ cmd.calls > 0 => InCatalog(cmd.title)
  /\ \A h \in Objects : procs[h].calls > 0 => InCatalog(heap[h].TitleID)


(***************************************************************************)
(* The title listing.                                                      *)
(***************************************************************************)
\* a GET /titles request has been answered with a listing
Listed == query.op = "GET /titles" /\ query.response.code = 200

\* one of the three filters of the answered request, applied to entries
ApplyFilter(f, entries) ==
  IF f = "platform"
  THEN (IF query.platform \in DOMAIN PlatformPrefixes
        THEN PlatformFilter(entries, PlatformPrefixes[query.platform])
        ELSE entries)
  ELSE IF f = "region"
  THEN (IF query.region \in DOMAIN RegionMasks
        THEN RegionFilter(entries, RegionMasks[query.region])
        ELSE entries)
  ELSE (IF query.search # <<>> THEN SearchFilter(entries, query.search)
        ELSE entries)

FilterNames == { "platform", "region", "search" }

FilterOrders ==
  { o \in [1..3 -> FilterNames] : \A f \in FilterNames : \E i \in 1..3 : o[i] = f }

\* the entries of the requested category
CategoryEntries ==
  GetTitleEntries(query.db,
                  CategoryFlags[IF query.category = "" THEN "game" ELSE query.category])

Elements(s) == { s[i] : i \in 1..Len(s) }

\* the titles array as a set
TitleSet(entries) == Elements(Listing(entries).titles)

\* C21: the platform, region and search filters of the listing compose by
\* logical AND: applied in any of the six orders to the category's entries
\* they give the set of titles the listing returns, which is the set of the
\* entries that pass all three, and applying any of them again to the
\* result gives the same set.
C21_FiltersCompose ==
  Listed =>
    /\ \A o \in FilterOrders :
         TitleSet(ApplyFilter(o[3], ApplyFilter(o[2], ApplyFilter(o[1], CategoryEntries))))
           = Elements(query.response.titles)
    /\ Elements(query.response.titles)
         = TitleSet(SelectSeq(CategoryEntries,
                     LAMBDA e : \A f \in FilterNames : ApplyFilter(f, <<e>>) = <<e>>))
    /\ \A f \in FilterNames :
         LET kept == ApplyFilter("search", ApplyFilter("region",
                       ApplyFilter("platform", CategoryEntries)))
         IN  TitleSet(ApplyFilter(f, kept)) = Elements(query.response.titles)

\* a listing with the three filters set, each of which alone drops an entry
\* of the category, and which returns more than one title
C21_Witness ==
  /\ Listed
  /\ query.platform \in DOMAIN PlatformPrefixes
  /\ query.region \in DOMAIN RegionMasks
  /\ query.search # <<>>
  /\ \A f \in FilterNames : ApplyFilter(f, CategoryEntries) # CategoryEntries
  /\ query.response.count > 1


\* a listing has been returned by the server or printed by the command runner
Answered ==
  /\ query.op \in { "GET /titles", "wiiu-cli -list" }
  /\ "titles" \in DOMAIN query.response

\* the same request without its region filter
WithoutRegion ==
  IF query.op = "GET /titles"
  THEN handleListTitles(query.db, query.category, query.search, "", query.platform)
  ELSE handleListSearch(query.db, query.search, query.category, "all")

\* the region mask of the catalog entry a returned title stands for
RegionOfTitle(t) ==
  (CHOOSE e \in Elements(query.db) : FormatHex16(e.TitleID) = t.id).Region

\* bit number k (0 the lowest) of mask is set
HasBit(mask, k) == (mask \div (2 ^ k)) % 2 = 1

RegionBitNumber == "japan" :> 0 @@ "usa" :> 1 @@ "europe" :> 2

RECURSIVE IsSubsequence(_, _)
IsSubsequence(s, t) ==
  IF s = <<>> THEN TRUE
  ELSE IF t = <<>> THEN FALSE
  ELSE IF Head(s) = Head(t) THEN IsSubsequence(Tail(s), Tail(t))
  ELSE IsSubsequence(s, Tail(t))

Mario == <<109, 97, 114, 105, 111>>

\* the request of the example: category game, search mario, no platform
MarioRequest ==
  /\ query.db = MarioDB /\ query.category = "game" /\ query.search = Mario
  /\ query.op = "GET /titles" => query.platform = ""

\* C22: with a region requested, the listing is the listing of the same
\* request without the region, restricted to the entries whose region mask
\* has the requested bit, and it is a subsequence of the category's entries
\* in catalog order; on the catalog holding only 0x00050000101C9500 "Super
\* Mario 3D World" (USA), category game with search mario returns exactly
\* that entry for region usa and nothing for region europe.
C22_RegionFilter ==
  Answered =>
    /\ query.region \in DOMAIN RegionMasks =>
         query.response.titles
           = SelectSeq(WithoutRegion.titles,
                       LAMBDA t : HasBit(RegionOfTitle(t), RegionBitNumber[query.region]))
    /\ IsSubsequence([i \in 1..Len(query.response.titles) |-> query.response.titles[i].id],
                     [i \in 1..Len(CategoryEntries) |-> FormatHex16(CategoryEntries[i].TitleID)])
    /\ MarioRequest =>
         /\ query.region = "usa" =>
              /\ Len(query.response.titles) = 1
              /\ query.response.titles[1].id
                   = <<"0","0","0","5","0","0","0","0","1","0","1","C","9","5","0","0">>
              /\ query.response.titles[1].name = MarioDB[1].Name
         /\ query.region = "europe" => query.response.titles = <<>>

\* a listing by region usa that keeps an entry sold in two regions and drops
\* another entry of the category
C22_Witness ==
  /\ Answered
  /\ query.region = "usa"
  /\ \E i \in 1..Len(query.response.titles) :
       RegionOfTitle(query.response.titles[i]) = MCP_REGION_USA + MCP_REGION_EUROPE
  /\ Len(query.response.titles) < Len(WithoutRegion.titles)

\* the request of the example: one entry returned from the one-entry catalog
C22_WitnessMario ==
  /\ Answered
  /\ MarioRequest
  /\ query.region = "usa"
  /\ query.response.titles # <<>>


(***************************************************************************)
(* containsIgnoreCase.                                                     *)
(***************************************************************************)
\* the lower-case form of a byte: only the letters A..Z change
ToLower(b) == IF b >= 65 /\ b <= 90 THEN b + 32 ELSE b

LowerCased(s) == [i \in 1..Len(s) |-> ToLower(s[i])]

\* t occurs in s as a contiguous substring
Contains(s, t) ==
  \E i \in 0..(Len(s) - Len(t)) : SubSeq(s, i + 1, i + Len(t)) = t

\* C23: containsIgnoreCase(name, term) is true exactly when the lower-cased
\* name contains the lower-cased term as a contiguous substring, for byte
\* strings of letters, digits and punctuation.
C23_ContainsIgnoreCase ==
  query.op = "containsIgnoreCase" =>
    (query.result <=> Contains(LowerCased(query.s), LowerCased(query.substr)))

\* the second half of the claim: the empty term is contained in every name
C23_EmptyTermKeepsAll ==
  (query.op = "containsIgnoreCase" /\ query.substr = <<>>) => query.result

\* restricted to letters, the two agree
C23_LettersOnly ==
  (/\ query.op = "containsIgnoreCase"
   /\ \A i \in 1..Len(query.s) : ToLower(query.s[i]) \in 97..122
   /\ \A i \in 1..Len(query.substr) : ToLower(query.substr[i]) \in 97..122)
  => (query.result <=> Contains(LowerCased(query.s), LowerCased(query.substr)))


(***************************************************************************)
(* Validation of the query parameters of GET /titles.                      *)
(***************************************************************************)
RecognizedCategories == { "", "game", "update", "dlc", "demo", "all" }
RecognizedRegions == { "", "all", "japan", "usa", "europe" }
RecognizedPlatforms == { "", "all", "wiiu", "vwii", "switch", "3ds" }
RecognizedFormats == { "", "cia" }

\* the category, region and platform tokens of the request are recognized
TokensRecognized ==
  /\ query.category \in RecognizedCategories
  /\ query.region \in RecognizedRegions
  /\ query.platform \in RecognizedPlatforms

\* C24: GET /titles with an unrecognized category, region or platform token
\* is answered 400 without a listing, whatever the other parameters are;
\* with recognized tokens only it is answered 200 and count is the number
\* of titles returned.
C24_InvalidTokenRejected ==
  query.op = "GET /titles" =>
    /\ ~TokensRecognized =>
         /\ query.response.code = 400
         /\ "titles" \notin DOMAIN query.response
         /\ "count" \notin DOMAIN query.response
    /\ (TokensRecognized /\ query.format \in RecognizedFormats) =>
         /\ query.response.code = 200
         /\ query.response.count = Len(query.response.titles)

\* an unrecognized region, checked last, with a recognized category and
\* platform and a search term
C24_Witness ==
  /\ query.op = "GET /titles"
  /\ query.category = "all" /\ query.platform = "wiiu"
  /\ query.region \notin RecognizedRegions
  /\ query.search # <<>>
  /\ query.response.code = 400

\* C25: GET /titles accepts a format filter: with a recognized format token
\* (cia) it is answered 200, with an unrecognized one 400.
C25_FormatFilter ==
  (query.op = "GET /titles" /\ TokensRecognized) =>
    /\ query.format \in RecognizedFormats => query.response.code = 200
    /\ query.format \notin RecognizedFormats => query.response.code = 400


(***************************************************************************)
(* Requests POST /download refuses.                                        *)
(***************************************************************************)
\* decoded bodies without a title_id
MissingTitleID == { req \in StartRequests : req.json /\ req.TitleID = <<>> }

\* bodies whose title_id is not a hexadecimal number
NonHexTitleID ==
  { req \in StartRequests :
      /\ req.json /\ req.TitleID # <<>>
      /\ \E i \in 1..Len(req.TitleID) : ~IsHexChar(req.TitleID[i]) }

\* bodies whose title_id is a hexadecimal number of at most 16 digits that
\* no catalog entry has
NotInCatalog ==
  { req \in StartRequests :
      /\ req.json /\ req.TitleID # <<>> /\ Len(req.TitleID) <= HexDigitsMax
      /\ \A i \in 1..Len(req.TitleID) : IsHexChar(req.TitleID[i])
      /\ \A e \in Catalog :
           e.TitleID # StripZeros([i \in 1..Len(req.TitleID) |-> HexVal(req.TitleID[i])]) }

\* the request is refused with the given code and no job is created
RefusedWith(req, code) ==
  \A mkdirOK \in BOOLEAN :
    StartDownload(req, mkdirOK) =>
      /\ createCode' = code
      /\ jobs' = jobs /\ heap' = heap /\ procs' = procs

DigitsOf(id) == StripZeros([i \in 1..Len(id) |-> HexVal(id[i])])

\* id is a hexadecimal number that fits 64 bits
Parsable(id) ==
  /\ id # <<>>
  /\ \A i \in 1..Len(id) : IsHexChar(id[i])
  /\ Len(DigitsOf(id)) * 4 <= BitSize

\* C27: GET /titles/{id} answers 400 exactly when id cannot be parsed as a
\* hexadecimal 64-bit number, 404 exactly when it parses and no catalog
\* entry has that ID, and otherwise returns the entry whose ID is the
\* parsed value.
C27_GetTitle ==
  query.op = "GET /titles/{id}" =>
    /\ query.response.code = 400 <=> ~Parsable(query.id)
    /\ query.response.code = 404 <=>
         (Parsable(query.id) /\ \A e \in Catalog : e.TitleID # DigitsOf(query.id))
    /\ query.response.code \notin {400, 404} =>
         \E e \in Catalog :
           /\ e.TitleID = DigitsOf(query.id)
           /\ query.response.title.id = FormatHex16(DigitsOf(query.id))
           /\ query.response.title.name = e.Name

\* the three answers: an id written with a leading zero returned its entry
C27_Witness ==
  /\ query.op = "GET /titles/{id}"
  /\ query.id = <<"0", "1">>
  /\ query.response.code = 200
  /\ query.response.title.id
       = <<"0","0","0","0","0","0","0","0","0","0","0","0","0","0","0","1">>


(***************************************************************************)
(* getPlatformFromTitleID.                                                 *)
(***************************************************************************)
\* the platform of the claim, read off the eight digits of the upper word
PlatformOfHigh(high) ==
  LET prefix == SubSeq(high, 1, 7)
  IN  IF prefix = <<0,0,0,5,0,0,0>> THEN "Wii U"
      ELSE IF prefix = <<0,0,0,4,0,0,0>> THEN "3DS"
      ELSE IF prefix = <<0,1,0,0,0,0,0>> THEN "Switch"
      ELSE IF high = <<0,0,0,0,0,0,0,7>> \/ prefix = <<0,0,0,7,0,0,0>> THEN "vWii"
      ELSE IF prefix = <<0,0,0,1,0,0,0>> THEN "Wii"
      ELSE "Unknown"

\* C28: getPlatformFromTitleID depends on the upper 32 bits of the title id
\* only: Wii U for 0x0005000x, 3DS for 0x0004000x, Switch for 0x0100000x,
\* vWii for 0x00000007 and 0x0007000x, Wii for 0x0001000x and Unknown for
\* every other upper word.
C28_PlatformFromTitleID ==
  query.op = "getPlatformFromTitleID" => query.result = PlatformOfHigh(query.high)

\* the call on 0x00000007FFFFFFFF: the upper word that is compared whole
C28_Witness ==
  /\ query.op = "getPlatformFromTitleID"
  /\ query.high = <<0,0,0,0,0,0,0,7>>
  /\ query.low = <<15,15,15,15,15,15,15,15>>
  /\ query.result = "vWii"


(***************************************************************************)
(* Writers of a job record.                                                *)
(***************************************************************************)
\* the step is a call of a method of the job's APIProgressReporter: the
\* methods are the only code that locks a mutex of the job (a.mu) while it
\* writes the record
SinkStep(h) == procs'[h].sink = procs[h].sink + 1

\* C29: no field of a job record is written by a goroutine that does not
\* hold the job's exclusive lock: every step that changes a stored job is a
\* step of a sink method, made under the sink's mutex; a step of the cancel
\* handler or of the background unit never changes it.
C29_WritesUnderLock ==
  [][\A h \in DOMAIN heap : heap'[h] # heap[h] => SinkStep(h)]_vars

\* C30: in every reachable state a job's EndTime is null while its status
\* is pending or downloading and set once it is completed, failed or
\* cancelled.
C30_EndTimeIffTerminal ==
  \A h \in DOMAIN heap :
    /\ heap[h].Status \in {"pending", "downloading"} => heap[h].EndTime = 0
    /\ heap[h].Status \in Terminal => heap[h].EndTime # 0


(***************************************************************************)
(* The error of a failed job.                                              *)
(***************************************************************************)
\* C31: in every reachable state in which a job's status is failed, its
\* Error field is the error text the fetcher returned for that job.
C31_FailedCarriesError ==
  \A h \in DOMAIN heap :
    heap[h].Status = "failed" =>
      /\ procs[h].err \in FetchErrors
      /\ heap[h].Error = procs[h].err

\* once the background unit has run to its end the error is there
C31_FailedCarriesErrorAtEnd ==
  \A h \in DOMAIN heap :
    (heap[h].Status = "failed" /\ procs[h].pc = "done") =>
      heap[h].Error = procs[h].err


(***************************************************************************)
(* Fields of a job fixed at its creation.                                  *)
(***************************************************************************)
\* id, targetID, outputPath, transform, deleteSourceAfterTransform, startedAt
CreationFields(job) ==
  << job.ID, job.TitleID, job.OutputDir, job.Decrypt, job.DeleteEncrypted,
     job.StartTime >>

\* C32: once a job is registered, no step (a sink call, a cancel, a status
\* read, a statement of the background unit, the creation of another job)
\* changes its ID, TitleID, OutputDir, Decrypt, DeleteEncrypted or StartTime.
C32_CreationFieldsFrozen ==
  [][\A h \in DOMAIN heap : CreationFields(heap'[h]) = CreationFields(heap[h])]_vars

\* a job that the sink renamed, that was cancelled with 200 and whose
\* background unit has run to its end, at a later second than its creation
C32_Witness ==
  \E h \in DOMAIN heap :
    /\ heap[h].TitleName \in SinkTitles
    /\ heap[h].Status = "cancelled"
    /\ procs[h].pc = "done"
    /\ procs[h].cancelOK
    /\ heap[h].EndTime > heap[h].StartTime


(***************************************************************************)
(* Frame of the sink methods.                                              *)
(***************************************************************************)
\* the byte counters of the console sink
ConsoleCounters(r) == << r.downloadedSize, r.fileProgress, r.totalSize >>

\* the byte counters of the polling sink of a job
PollingCounters(job) == << job.Downloaded, job.DownloadSize >>

\* C33: UpdateDecryptionProgress leaves the aggregate byte counter, the
\* per-file entries and the expected total unchanged, in the console sink
\* and in the polling sink.
C33_TransformKeepsCounters ==
  [][/\ CliUpdateDecryptionProgress =>
          ConsoleCounters(reporter') = ConsoleCounters(reporter)
     /\ \A h \in DOMAIN heap :
          SinkUpdateDecryptionProgress(h) =>
            PollingCounters(heap'[h]) = PollingCounters(heap[h])]_vars

\* the console sink has printed a decryption line while it held bytes of a
\* file and an expected total
C33_Witness ==
  /\ reporter.decryption # NoLine
  /\ reporter.downloadedSize > 0
  /\ reporter.totalSize > 0
  /\ DOMAIN reporter.fileProgress # {}

\* the polling sink has taken a decryption progress while the job held
\* downloaded bytes
C33_WitnessPolling ==
  \E h \in DOMAIN heap :
    /\ heap[h].Progress \in SinkProgress
    /\ heap[h].Downloaded > 0
    /\ procs[h].sink > 0


\* C34: after ResetTotals() the aggregate byte counter is 0, the per-file
\* entries are gone and the file counts are 0, so that the first
\* UpdateDownloadProgress(b, f) afterwards yields an aggregate of b; the call
\* leaves the cancellation flag, the display name and the job status
\* unchanged.
C34_ResetTotals ==
  [][/\ CliResetTotals =>
          /\ reporter'.downloadedSize = 0
          /\ reporter'.fileProgress = <<>>
          /\ reporter'.totalFiles = 0
          /\ reporter'.completedFiles = 0
          /\ reporter'.cancelled = reporter.cancelled
          /\ reporter'.gameTitle = reporter.gameTitle
          /\ \A f \in Files, b \in FileBytes :
               UpdateDownloadProgressCall(reporter', b, f, now').downloadedSize = b
     /\ \A h \in DOMAIN heap :
          SinkResetTotals(h) =>
            /\ heap'[h].Downloaded = 0
            /\ heap'[h].Status = heap[h].Status
            /\ heap'[h].TitleName = heap[h].TitleName
            /\ \A f \in Files, b \in FileBytes :
                 UpdateDownloadProgress(heap'[h], b, f, now').Downloaded = b]_vars

\* the console sink printed a progress line for an expected total and the
\* total is back at 0 with no file entry: ResetTotals() has been called on
\* a sink that held a title and counters
C34_Witness ==
  /\ reporter.eta # NoLine
  /\ reporter.gameTitle \in SinkTitles
  /\ reporter.totalSize = 0
  /\ reporter.downloadedSize = 0
  /\ reporter.fileProgress = <<>>


\* C40: in the console sink downloadedSize equals the sum of the values of
\* fileProgress in every reachable state, after any sequence of calls of
\* UpdateDownloadProgress, SetTotalDownloadedForFile, ResetTotals,
\* SetDownloadSize, SetStartTime and MarkFileAsDone.
C40_AggregateIsSum ==
  reporter.downloadedSize = MapSum(reporter.fileProgress)


\* the background unit of the job has entered DownloadTitle
FetchEntered(h) ==
  procs[h].pc \in {"fetching", "returned", "result", "keepCancelled",
                   "setFailed", "setError", "setCompleted", "setProgress",
                   "done", "panicked"}

\* C36: for every accepted POST /download the fetcher is invoked exactly
\* once over the life of the job: a unit that has entered DownloadTitle has
\* entered it once, and no step (an error returned, a cancel, a status
\* read) makes the count of a job move again.
C36_FetchInvokedOnce ==
  /\ [](\A h \in DOMAIN heap :
          /\ procs[h].calls <= 1
          /\ FetchEntered(h) => procs[h].calls = 1)
  /\ [][\A h \in DOMAIN heap :
          procs[h].calls = 1 => procs'[h].calls = 1]_vars

\* the fetch of a job returned an error after a cancel was accepted, the
\* unit has run to its end and a status read has answered for the job
C36_Witness ==
  \E h \in DOMAIN heap :
    /\ procs[h].pc = "done"
    /\ procs[h].err \in FetchErrors
    /\ procs[h].cancelOK
    /\ procs[h].calls = 1
    /\ gslot.code = 200
    /\ gslot.job = h


(***************************************************************************)
(* The platform filter against the platform label.                         *)
(***************************************************************************)
\* the label the claim gives each platform token
PlatformLabels ==
  "wiiu" :> "Wii U" @@ "3ds" :> "3DS" @@ "switch" :> "Switch" @@ "vwii" :> "vWii"

\* C37: for every title id whose upper 32 bits are a prefix the listing
\* accepts for platform=wiiu, 3ds, switch or vwii, getPlatformFromTitleID
\* returns the label of that platform.
C37_LabelAgreesWithFilter ==
  query.op = "getPlatformFromTitleID" =>
    \A p \in DOMAIN PlatformLabels :
      StripZeros(query.high) \in PlatformPrefixes[p] =>
        query.result = PlatformLabels[p]


(***************************************************************************)
(* The two front-ends of the catalog.                                      *)
(***************************************************************************)
\* the answered request carries no platform filter
NoPlatformFilter ==
  \/ query.op = "wiiu-cli -list"
  \/ query.op = "GET /titles" /\ query.platform \in {"", "all"}

\* what the service answers to the tokens of the request
ByService == handleListTitles(query.db, query.category, query.search, query.region, "")

\* what the command runner does with the tokens of the request
ByCommand == handleListSearch(query.db, query.search, query.category, query.region)

\* the entries an answer selects, in order: their ids and names
Selection(answer) ==
  [i \in 1..Len(answer.titles) |-> <<answer.titles[i].id, answer.titles[i].name>>]

\* the two front-ends agree on the tokens of the request
FrontEndsAgree ==
  /\ ("error" \in DOMAIN ByService) <=> ("error" \in DOMAIN ByCommand)
  /\ ("titles" \in DOMAIN ByService /\ "titles" \in DOMAIN ByCommand) =>
       Selection(ByService) = Selection(ByCommand)

\* C35: for every category token, region token and search string the
\* command runner's list mode and GET /titles without a platform filter
\* select the same entries in the same order, and a token rejected by one
\* is rejected by the other.
C35_FrontEndsAgree ==
  NoPlatformFilter => FrontEndsAgree

\* the same for requests whose category and region tokens are not empty
C35_NonEmptyTokensAgree ==
  (NoPlatformFilter /\ query.category # "" /\ query.region # "") => FrontEndsAgree


(***************************************************************************)
(* The end time of a job.                                                  *)
(***************************************************************************)
\* C38: the end time of a job is written at most once: once EndTime is set
\* no later step changes it, neither the fetch returning after an accepted
\* cancel nor a cancel after the fetch returned.
C38_EndTimeWrittenOnce ==
  [][\A h \in DOMAIN heap :
       heap[h].EndTime # 0 => heap'[h].EndTime = heap[h].EndTime]_vars


(***************************************************************************)
(* The end of a job under fair scheduling.                                 *)
(***************************************************************************)
\* DownloadTitle of job h has returned and the unit has not gone on yet
Returned(h) == h \in DOMAIN heap /\ procs[h].pc = "returned"

\* job h has a final status and an end time
Settled(h) ==
  /\ h \in DOMAIN heap
  /\ heap[h].Status \in Terminal
  /\ heap[h].EndTime # 0

\* the process of job h was ended by the panic of another job's fetch
Killed(h) == h \in DOMAIN heap /\ procs[h].pc = "killed"

\* C39: under fair scheduling of the background unit every job whose fetch
\* call returns eventually has a status in {completed, failed, cancelled}
\* with its end time set, and from then on its status stays inside that
\* set: no job whose fetch returned stays pending or downloading forever.
C39_ReturnedJobSettles ==
  \A h \in 1..MaxJobs : Returned(h) ~> []Settled(h)

\* the same for the jobs of a process that is not ended by a panic
C39_SettlesUnlessKilled ==
  \A h \in 1..MaxJobs : Returned(h) ~> (Killed(h) \/ []Settled(h))

=============================================================================
